---- MODULE Spec2Model ----
(***************************************************************************)
(* Model of the orchestration core of heartattack1/rta.                    *)
(*                                                                         *)
(* The Task Tracker (services/tracker/app.py): the task state machine, the *)
(* HTTP handlers POST /projects, POST /tasks, PATCH /tasks/{id},           *)
(* ensure_worker_started, and the single dispatcher worker that drives     *)
(* each task through the pipeline.  Database access is modelled at the     *)
(* granularity sqlite gives the code: Python's sqlite3 opens a transaction *)
(* only in front of the first INSERT/UPDATE, so a SELECT that precedes the *)
(* first write of a connection is a step of its own, and everything from   *)
(* the first write to commit() is one atomic step.                         *)
(*                                                                         *)
(* The Tool Run Supervisor (services/tooler/app.py): the adapters, POST    *)
(* /tool-runs, the watcher thread of a run, its subprocess, GET            *)
(* /tool-runs/{id} and the completion callback.  The registry lock covers  *)
(* only the lookup of a run, so every later read or write of a field of    *)
(* the run is a step of its own.                                           *)
(***************************************************************************)
EXTENDS Integers, Sequences, FiniteSets, TLC

----------------------------------------------------------------------------
(* Bounds of the model *)

MaxTasks == 1
MaxPatch == 1
\* Callers of ensure_worker_started: line 744 and one concurrent caller.
MaxStarters == 2
\* Tasks created where the order of processing is checked.
MaxQueued == 2
\* Tool-runs created in the supervisor.
MaxRuns == 1
\* GET /tool-runs/{id} requests served at the same time.
MaxGets == 2

----------------------------------------------------------------------------
(* Python values.  A string is a prefix of one of a few base texts: the    *)
(* record [base, len] is the first len characters of text base.  None and  *)
(* a missing dict key are values of their own.                             *)

None == [base |-> "None", len |-> 0]
Absent == [base |-> "Absent", len |-> 0]
EmptyStr == [base |-> "", len |-> 0]
Str(b, n) == IF n = 0 THEN EmptyStr ELSE [base |-> b, len |-> n]
\* A whitespace-only text, e.g. "   ".
Blank == [base |-> "ws", len |-> 3]

Min(a, b) == IF a < b THEN a ELSE b

\* bool(v): None and "" are falsy.
Truthy(v) == v.len > 0
\* str(v): str(None) is the four-character text "None".
PyStr(v) == IF v = None THEN [base |-> "None-text", len |-> 4] ELSE v
\* v.strip(): the base texts other than "ws" carry no outer whitespace.
Strip(v) == IF v.base = "ws" THEN EmptyStr ELSE v
\* v[:n]
Prefix(v, n) == Str(v.base, Min(v.len, n))
\* d.get(k, default) for a dict field holding Absent when the key is missing.
Get(v, default) == IF v = Absent THEN default ELSE v
\* a or b
Or(a, b) == IF Truthy(a) THEN a ELSE b

----------------------------------------------------------------------------
(* The task state machine *)

TASK_STATES ==
  {"RECEIVED", "ROUTED", "TRANSCRIBING", "REFINING", "TOOL_QUEUED",
   "TOOL_RUNNING", "SUMMARIZING", "TTS_GENERATING", "DELIVERED", "FAILED"}

ALLOWED_TASK_TRANSITIONS ==
  [s \in TASK_STATES |->
     CASE s = "RECEIVED" -> {"ROUTED", "FAILED"}
       [] s = "ROUTED" -> {"TRANSCRIBING", "REFINING", "FAILED"}
       [] s = "TRANSCRIBING" -> {"REFINING", "FAILED"}
       [] s = "REFINING" -> {"TOOL_QUEUED", "FAILED"}
       [] s = "TOOL_QUEUED" -> {"TOOL_RUNNING", "FAILED"}
       [] s = "TOOL_RUNNING" -> {"SUMMARIZING", "FAILED"}
       [] s = "SUMMARIZING" -> {"TTS_GENERATING", "DELIVERED", "FAILED"}
       [] s = "TTS_GENERATING" -> {"DELIVERED", "FAILED"}
       [] s = "DELIVERED" -> {}
       [] s = "FAILED" -> {}]

\* ALLOWED_TASK_TRANSITIONS.get(current_status, set())
AllowedFrom(current_status) ==
  IF current_status \in TASK_STATES
    THEN ALLOWED_TASK_TRANSITIONS[current_status]
    ELSE {}

ValidateAcceptsAll(current_status, next_status) == TRUE

\* TRUE when validate_task_transition returns, FALSE when it aborts with 400.
validate_task_transition(current_status, next_status) ==
  \/ next_status = current_status
  \/ next_status \in AllowedFrom(current_status)

----------------------------------------------------------------------------
(* State *)

VARIABLES
  projects,          \* number of rows of table projects (ids 1..projects)
  tasks,             \* table tasks: task id (insertion order) -> row
  history,           \* table task_status_history, in insertion order
  tool_runs,         \* table tool_runs: tool-run id (insertion order) -> row
  queue,             \* _task_queue
  worker,            \* the dispatcher thread: position and locals of process_task
  patches,           \* PATCH handlers between their SELECT and their UPDATE
  clock,             \* the next value utc_now_iso() returns
  BOT_CALLBACK_URL,  \* configuration: TRUE when a bot callback URL is set
  nPatch,            \* PATCH requests received so far
  resp,              \* the last HTTP response sent
  touched,           \* ids of the tasks a PATCH request was addressed to
  probe,             \* a call of a pure function: its arguments and result
  bot,               \* the chat frontend: polling loop, requests, messages sent
  _worker_started,   \* the flag ensure_worker_started sets
  _worker_lock,      \* the caller holding _worker_lock, 0 when it is free
  starters,          \* the position of each caller of ensure_worker_started
  threads,           \* number of worker threads started
  _tool_runs,        \* supervisor registry: run id (creation order) -> ToolRun
  runners,           \* the watcher thread of each run: position and locals
  procs,             \* the subprocess of each run
  files,             \* stdout.log and stderr.log of each run
  gets,              \* GET /tool-runs/{id} handlers: position and locals
  creates,           \* POST /tool-runs handlers between start() and response
  posts,             \* the completion callback POSTs issued so far
  tresp,             \* the last HTTP response of the supervisor
  RUN_AS_USER        \* configuration: "", or a unix user name

\* The state of ensure_worker_started.
startVars == <<_worker_started, _worker_lock, starters, threads>>

\* The state of the task tracker.
trackerVars ==
  <<projects, tasks, history, tool_runs, queue, worker, patches, clock,
    BOT_CALLBACK_URL, nPatch, resp, touched, probe, bot, startVars>>

\* The state of the tool-run supervisor.
toolerVars ==
  <<_tool_runs, runners, procs, files, gets, creates, posts, tresp,
    RUN_AS_USER>>

vars == <<trackerVars, toolerVars>>

TaskIds == 1..Len(tasks)
Handlers == 1..MaxPatch
Starters == 1..MaxStarters
RunIds == 1..Len(_tool_runs)
GetHandlers == 1..MaxGets

\* The rows of task_status_history of one task, in insertion order.
HistoryOf(t) == SelectSeq(history, LAMBDA r : r.task_id = t)
\* The (from, to) pairs of those rows.
Pairs(t) == [i \in 1..Len(HistoryOf(t)) |->
               <<HistoryOf(t)[i].from_status, HistoryOf(t)[i].to_status>>]
\* The tool-run ids of one task.
ToolRunsOf(t) == {i \in 1..Len(tool_runs) : tool_runs[i].task_id = t}

----------------------------------------------------------------------------
(* update_task_internal, as the two parts sqlite makes of it: the SELECT    *)
(* with the validation, and the UPDATE with the history INSERT.             *)

\* The keyword arguments; status "None" and value None mean "not given".
NoArgs ==
  [status |-> "None", transcript |-> None, refined_text |-> None,
   final_summary |-> None, final_audio_uri |-> None, failure_reason |-> None]

UtiHasUpdates(a) == a # NoArgs

\* The UPDATE of lines 195-200 applied to the stored row.
UtiRow(row, a, now) ==
  IF ~UtiHasUpdates(a) THEN row
  ELSE [row EXCEPT
          !.status = IF a.status # "None" THEN a.status ELSE @,
          !.transcript = IF a.transcript # None THEN a.transcript ELSE @,
          !.refined_text = IF a.refined_text # None THEN a.refined_text ELSE @,
          !.final_summary = IF a.final_summary # None THEN a.final_summary ELSE @,
          !.final_audio_uri =
             IF a.final_audio_uri # None THEN a.final_audio_uri ELSE @,
          !.failure_reason =
             IF a.failure_reason # None THEN a.failure_reason ELSE @,
          !.updated_at = now]

HistoryRow(task_id, from_status, to_status, changed_at) ==
  [task_id |-> task_id, from_status |-> from_status, to_status |-> to_status,
   changed_at |-> changed_at]

\* The INSERT of lines 202-206: current_status is what the SELECT returned.
UtiHistory(task_id, current_status, a, now) ==
  IF UtiHasUpdates(a) /\ a.status # "None" /\ a.status # current_status
    THEN <<HistoryRow(task_id, current_status, a.status, now)>>
    ELSE <<>>

----------------------------------------------------------------------------
(* Initial state: an empty database, an empty queue, the worker waiting.    *)

\* exit_code: int | None = None (ToolRun, line 39); the value standing for
\* None where an exit code is expected.
NoExitCode == 999
NoPayload ==
  [tool_run_id |-> 0, status |-> "None", pid |-> 0, exit_code |-> NoExitCode,
   artifacts |-> <<>>]
NoGet == [pc |-> "idle", run |-> 0, exit_code |-> NoExitCode,
          payload |-> NoPayload]
NoToolerResp ==
  [op |-> "None", code |-> 0, run |-> 0, status |-> "None", pid |-> 0,
   exit_code |-> NoExitCode, artifacts |-> <<>>]

\* The supervisor after import: an empty registry, no request in progress.
ToolerIdle ==
  /\ _tool_runs = <<>>
  /\ runners = <<>>
  /\ procs = <<>>
  /\ files = <<>>
  /\ gets = [g \in GetHandlers |-> NoGet]
  /\ creates = <<>>
  /\ posts = <<>>
  /\ tresp = NoToolerResp

\* What a collaborator answered: error is the message of the exception
\* post_json raised (None when it returned), the other fields are the keys of
\* the returned JSON object the dispatcher looks at.
NoAsr == [called |-> FALSE, error |-> None, transcript_text |-> Absent,
          transcript |-> Absent]
NoRefine == [called |-> FALSE, error |-> None, refined_text |-> Absent]
NoTool == [called |-> FALSE, error |-> None]
NoSummarize == [called |-> FALSE, error |-> None, summary_text |-> Absent,
                summary |-> Absent]
NoTts == [called |-> FALSE, error |-> None, audio_uri |-> Absent]

IdleWorker ==
  [pc |-> "idle", task |-> 0, stage |-> "None", current_status |-> "None",
   updated_at |-> 0, error |-> None, input_text |-> None,
   refined_text |-> None, summary_text |-> None, final_audio_uri |-> None,
   tool_run_id |-> 0, asr |-> NoAsr, refine |-> NoRefine, tool |-> NoTool,
   summarize |-> NoSummarize, tts |-> NoTts, callback |-> "None"]

NoPatch == [task |-> 0]
NoResp == [op |-> "None", code |-> 0, task |-> 0, message |-> "None"]
NoProbe == [fn |-> "None"]

\* The offset of the polling loop before the first batch: None.
NoOffset == -1

\* The chat frontend after start, and Telegram with no update pending.
\* pc is the position of poll_updates_forever: "get" (line 96), "process"
\* (lines 106-107), "offset" (line 108), "sleep" (lines 111 and 114).
NoBot ==
  [pc |-> "get", offset |-> NoOffset, updates |-> <<>>, k |-> 0,
   pending |-> <<>>, issued |-> 0, raised |-> 0, raisedAt |-> 0,
   previous |-> <<>>, processed |-> <<>>, requests |-> <<>>, sent |-> <<>>]

Init ==
  /\ projects = 0
  /\ tasks = <<>>
  /\ history = <<>>
  /\ tool_runs = <<>>
  /\ queue = <<>>
  /\ worker = IdleWorker
  /\ patches = [h \in Handlers |-> NoPatch]
  /\ clock = 1
  /\ BOT_CALLBACK_URL \in BOOLEAN
  /\ nPatch = 0
  /\ resp = NoResp
  /\ touched = {}
  /\ probe = NoProbe
  /\ bot = NoBot
  \* line 744 has run: the worker thread exists
  /\ _worker_started = TRUE
  /\ _worker_lock = 0
  /\ starters = [c \in Starters |-> "done"]
  /\ threads = 1
  /\ ToolerIdle
  /\ RUN_AS_USER = ""

----------------------------------------------------------------------------
(* POST /projects *)

MaxProjects == 1

CreateProject ==
  /\ projects < MaxProjects
  /\ \E name \in {EmptyStr, Blank, Str("P", 1)} :
       IF Strip(PyStr(Get(name, EmptyStr))) = EmptyStr
         THEN /\ resp' = [op |-> "POST /projects", code |-> 400, task |-> 0,
                          message |-> "Field 'name' is required"]
              /\ UNCHANGED <<projects, clock>>
         ELSE /\ projects' = projects + 1
              /\ clock' = clock + 1
              /\ resp' = [op |-> "POST /projects", code |-> 201, task |-> 0,
                          message |-> "None"]
  /\ UNCHANGED <<tasks, history, tool_runs, queue, worker, patches,
                 BOT_CALLBACK_URL, nPatch, touched, probe, bot,
                 startVars, toolerVars>>

----------------------------------------------------------------------------
(* POST /tasks *)

\* project_id 0 stands for a missing (falsy) project_id.
TaskPayload(project_id, input_type, raw_text, raw_audio_uri) ==
  [project_id |-> project_id, input_type |-> input_type,
   raw_text |-> raw_text, raw_audio_uri |-> raw_audio_uri]

TaskPayloads ==
  {TaskPayload(p, "text", Str("request", 9), None) : p \in 0..(MaxProjects + 1)}
  \cup
  {TaskPayload(1, "text", Blank, None),
   TaskPayload(1, "text", None, None),
   TaskPayload(1, "text", EmptyStr, Str("uri", 12)),
   TaskPayload(1, "text", Str("request", 9), Str("uri", 12)),
   TaskPayload(1, "voice", None, Str("uri", 12)),
   TaskPayload(1, "voice", None, None),
   TaskPayload(1, "voice", Str("request", 9), EmptyStr),
   TaskPayload(1, "voice", Str("request", 9), Str("uri", 12)),
   TaskPayload(1, "other", Str("request", 9), Str("uri", 12)),
   TaskPayload(1, "None", Str("request", 9), None)}

CreateTaskCodeNoProjectCheck(payload) ==
  IF payload.project_id = 0 THEN 400
  ELSE IF payload.input_type \notin {"text", "voice"} THEN 400
  ELSE IF payload.input_type = "text" /\ ~Truthy(payload.raw_text) THEN 400
  ELSE IF payload.input_type = "voice" /\ ~Truthy(payload.raw_audio_uri) THEN 400
  ELSE 201

\* The status code of POST /tasks for a payload (lines 523-545).
CreateTaskCode(payload) ==
  IF payload.project_id = 0 THEN 400
  ELSE IF payload.input_type \notin {"text", "voice"} THEN 400
  ELSE IF payload.input_type = "text" /\ ~Truthy(payload.raw_text) THEN 400
  ELSE IF payload.input_type = "voice" /\ ~Truthy(payload.raw_audio_uri) THEN 400
  ELSE IF payload.project_id > projects THEN 404
  ELSE 201

NewTaskRowRouted(payload, now) ==
  [project_id |-> payload.project_id, input_type |-> payload.input_type,
   raw_text |-> payload.raw_text, raw_audio_uri |-> payload.raw_audio_uri,
   transcript |-> None, refined_text |-> None, status |-> "ROUTED",
   final_summary |-> None, final_audio_uri |-> None, failure_reason |-> None,
   created_at |-> now, updated_at |-> now]

\* The row inserted by lines 546-569.
NewTaskRow(payload, now) ==
  [project_id |-> payload.project_id, input_type |-> payload.input_type,
   raw_text |-> payload.raw_text, raw_audio_uri |-> payload.raw_audio_uri,
   transcript |-> None, refined_text |-> None, status |-> "RECEIVED",
   final_summary |-> None, final_audio_uri |-> None, failure_reason |-> None,
   created_at |-> now, updated_at |-> now]

\* POST /tasks (lines 519-579) with one of the payloads, while fewer than
\* max tasks exist; the state of the caller is not mentioned.
create_task(payloads, max) ==
  \E payload \in payloads :
    /\ Len(tasks) < max
    /\ IF CreateTaskCode(payload) = 201
         THEN /\ tasks' = Append(tasks, NewTaskRow(payload, clock))
              /\ history' =
                   Append(history,
                          HistoryRow(Len(tasks) + 1, "None", "RECEIVED", clock))
              /\ clock' = clock + 1
              \* enqueue_task, after the commit
              /\ queue' = Append(queue, Len(tasks) + 1)
              /\ resp' = [op |-> "POST /tasks", code |-> 201,
                          task |-> Len(tasks) + 1, message |-> "None"]
         ELSE /\ resp' = [op |-> "POST /tasks",
                          code |-> CreateTaskCode(payload), task |-> 0,
                          message |-> "rejected"]
              /\ UNCHANGED <<tasks, history, clock, queue>>
    /\ UNCHANGED <<projects, tool_runs, worker, patches, BOT_CALLBACK_URL,
                   nPatch, touched, probe, startVars, toolerVars>>

CreateTaskFrom(payloads, max) == create_task(payloads, max) /\ UNCHANGED bot

CreateTask == CreateTaskFrom(TaskPayloads, MaxTasks)

----------------------------------------------------------------------------
(* PATCH /tasks/{id} *)

\* A payload: status "Absent" and value Absent mean the key is not in the
\* body; unknown says the body carries a key outside the whitelist.
EmptyBody ==
  [unknown |-> FALSE, status |-> "Absent", transcript |-> Absent,
   refined_text |-> Absent, final_summary |-> Absent,
   final_audio_uri |-> Absent, raw_audio_uri |-> Absent,
   failure_reason |-> Absent]

PatchBodies ==
  {[EmptyBody EXCEPT !.status = s] : s \in TASK_STATES \cup {"BOGUS"}}
  \cup
  {EmptyBody,
   [EmptyBody EXCEPT !.unknown = TRUE],
   [EmptyBody EXCEPT !.unknown = TRUE, !.final_summary = Str("patched", 7)],
   [EmptyBody EXCEPT !.status = "REFINING", !.final_summary = Str("patched", 7)],
   [EmptyBody EXCEPT !.status = "BOGUS", !.refined_text = Str("patched", 7)],
   [EmptyBody EXCEPT !.status = "DELIVERED", !.final_summary = Str("patched", 7)],
   [EmptyBody EXCEPT !.status = "FAILED", !.failure_reason = Str("patched", 501)],
   [EmptyBody EXCEPT !.raw_audio_uri = Str("uri2", 12)]}

\* not payload (line 621): the body has no key at all.
BodyIsEmpty(body) == body = EmptyBody

\* The 400/404 message of PATCH /tasks/{id} (lines 617-632) for a body, given
\* whether the task exists and the status the SELECT of line 625 returned;
\* "None" when the request is not rejected.
PatchError(body, exists, current_status) ==
  IF body.unknown THEN "Unknown fields"
  ELSE IF BodyIsEmpty(body) THEN "No fields to update"
  ELSE IF ~exists THEN "Task not found"
  ELSE IF body.status # "Absent" /\ body.status \notin TASK_STATES
    THEN "Unknown status"
  ELSE IF body.status # "Absent"
          /\ ~validate_task_transition(current_status, body.status)
    THEN "Invalid task status transition"
  ELSE "None"

PatchCode(body, exists, current_status) ==
  CASE PatchError(body, exists, current_status) = "None" -> 200
    [] PatchError(body, exists, current_status) = "Task not found" -> 404
    [] OTHER -> 400

\* The UPDATE of lines 634-648 applied to the stored row.
PatchRow(row, body, now) ==
  [row EXCEPT
     !.status = IF body.status # "Absent" THEN body.status ELSE @,
     !.transcript = IF body.transcript # Absent THEN body.transcript ELSE @,
     !.refined_text = IF body.refined_text # Absent THEN body.refined_text ELSE @,
     !.final_summary =
        IF body.final_summary # Absent THEN body.final_summary ELSE @,
     !.final_audio_uri =
        IF body.final_audio_uri # Absent THEN body.final_audio_uri ELSE @,
     !.raw_audio_uri =
        IF body.raw_audio_uri # Absent THEN body.raw_audio_uri ELSE @,
     !.failure_reason =
        IF body.failure_reason # Absent THEN body.failure_reason ELSE @,
     !.updated_at = now]

PatchRejectedWritesFields(row, body, now) ==
  [row EXCEPT
     !.final_summary =
        IF body.final_summary # Absent THEN body.final_summary ELSE @,
     !.refined_text = IF body.refined_text # Absent THEN body.refined_text ELSE @,
     !.updated_at = now]

\* The stored row after a rejected PATCH: every abort (lines 619, 622, 631
\* and 136) comes before the UPDATE of line 646.
PatchRejectedRow(row, body, now) == row

\* The INSERT of lines 650-660.
PatchHistory(task_id, current_status, body, now) ==
  IF body.status # "Absent" /\ body.status # current_status
    THEN <<HistoryRow(task_id, current_status, body.status, now)>>
    ELSE <<>>

\* Lines 606-644: the request is parsed, the row is read, the status change
\* is validated and the clock is read; no transaction is open yet.
PatchBeginFrom(h, t, body, max) ==
  /\ nPatch < max
  /\ patches[h] = NoPatch
  /\ \A g \in Handlers : g < h => patches[g] # NoPatch
  /\ nPatch' = nPatch + 1
  /\ touched' = IF t \in TaskIds THEN touched \cup {t} ELSE touched
  /\ LET exists == t \in TaskIds
         current_status == IF exists THEN tasks[t].status ELSE "None"
         code == PatchCode(body, exists, current_status)
     IN IF code = 200
          THEN /\ patches' = [patches EXCEPT ![h] =
                                [task |-> t, body |-> body,
                                 current_status |-> current_status,
                                 updated_at |-> clock]]
               /\ clock' = clock + 1
               /\ UNCHANGED <<resp, tasks>>
          ELSE /\ resp' = [op |-> "PATCH", code |-> code, task |-> t,
                           message |-> PatchError(body, exists, current_status)]
               /\ tasks' = IF exists
                             THEN [tasks EXCEPT ![t] =
                                     PatchRejectedRow(@, body, clock)]
                             ELSE tasks
               /\ UNCHANGED <<patches, clock>>
  /\ UNCHANGED <<projects, history, tool_runs, queue, worker,
                 BOT_CALLBACK_URL, probe, bot, startVars, toolerVars>>

PatchBegin(h, t, body) == PatchBeginFrom(h, t, body, MaxPatch)

\* Lines 646-666: UPDATE, history INSERT and commit, one transaction.
PatchCommit(h) ==
  /\ patches[h] # NoPatch
  /\ LET p == patches[h]
     IN /\ tasks' = [tasks EXCEPT ![p.task] = PatchRow(@, p.body, p.updated_at)]
        /\ history' = history \o PatchHistory(p.task, p.current_status, p.body,
                                              p.updated_at)
        /\ resp' = [op |-> "PATCH", code |-> 200, task |-> p.task,
                    message |-> "None"]
  /\ patches' = [patches EXCEPT ![h] = NoPatch]
  /\ UNCHANGED <<projects, tool_runs, queue, worker, clock, BOT_CALLBACK_URL,
                 nPatch, touched, probe, bot,
                 startVars, toolerVars>>

----------------------------------------------------------------------------
(* The tracker's tool_runs rows (timestamps: 0 is NULL) *)

NewToolRunRunning(task_id, tool_name, input_payload, now) ==
  [task_id |-> task_id, tool_name |-> tool_name, status |-> "RUNNING",
   input |-> input_payload, output |-> "None", started_at |-> 0,
   finished_at |-> 0, created_at |-> now, updated_at |-> now]

\* create_tool_run_internal (lines 211-237)
NewToolRun(task_id, tool_name, input_payload, now) ==
  [task_id |-> task_id, tool_name |-> tool_name, status |-> "QUEUED",
   input |-> input_payload, output |-> "None", started_at |-> 0,
   finished_at |-> 0, created_at |-> now, updated_at |-> now]

\* update_tool_run_internal (lines 240-265)
UpdateToolRun(row, status, output_payload, started_at, finished_at, now) ==
  [row EXCEPT
     !.status = status,
     !.output = output_payload,
     !.started_at = IF started_at # 0 THEN started_at ELSE @,
     !.finished_at = IF finished_at # 0 THEN finished_at ELSE @,
     !.updated_at = now]

----------------------------------------------------------------------------
(* What the collaborators may answer *)

\* Messages of the exceptions requests raises (connection error, timeout,
\* non-2xx status, invalid JSON): short, longer than 500 characters, blank.
UpstreamErrors ==
  {Str("upstream error", 40), Str("upstream error", 600), Blank}

AsrResponses ==
  {[called |-> TRUE, error |-> e, transcript_text |-> Absent,
    transcript |-> Absent] : e \in UpstreamErrors}
  \cup
  {[called |-> TRUE, error |-> None, transcript_text |-> tt, transcript |-> t] :
     <<tt, t>> \in {<<Str("spoken", 15), Absent>>,
                    <<Absent, Str("spoken", 15)>>,
                    <<Absent, Blank>>}}

RefineResponses ==
  {[called |-> TRUE, error |-> e, refined_text |-> Absent] :
     e \in UpstreamErrors}
  \cup
  {[called |-> TRUE, error |-> None, refined_text |-> r] :
     r \in {Str("refined", 9), EmptyStr, Blank, Absent}}

ToolResponses ==
  {[called |-> TRUE, error |-> e] : e \in UpstreamErrors \cup {None}}

SummarizeResponses ==
  {[called |-> TRUE, error |-> e, summary_text |-> Absent, summary |-> Absent] :
     e \in UpstreamErrors}
  \cup
  {[called |-> TRUE, error |-> None, summary_text |-> st, summary |-> su] :
     <<st, su>> \in {<<Str("summary A", 9), Str("summary B", 9)>>,
                     <<Absent, Str("summary B", 9)>>,
                     <<EmptyStr, Absent>>,
                     <<Blank, Str("summary B", 9)>>}}

TtsResponses ==
  {[called |-> TRUE, error |-> e, audio_uri |-> Absent] : e \in UpstreamErrors}
  \cup
  {[called |-> TRUE, error |-> None, audio_uri |-> u] :
     u \in {Str("audio", 14), EmptyStr, Absent}}

----------------------------------------------------------------------------
(* process_task (lines 277-432) *)

\* The messages of the exceptions process_task raises itself.
TextEmptyError == Str("Text task has empty raw_text", 28)
AsrEmptyError == Str("ASR returned empty transcript", 29)
RefineEmptyError == Str("Refine returned empty refined_text", 34)
SummaryEmptyError == Str("Summarizer returned empty summary", 33)
TtsEmptyError == Str("TTS returned empty audio_uri", 28)
\* str() of the HTTPException abort(400) raises in validate_task_transition.
TransitionError == Str("400 Bad Request: Invalid task status transition", 60)

\* The transcript the dispatcher takes from the ASR answer (line 298).
AsrTranscript(r) == Strip(PyStr(Get(r.transcript, EmptyStr)))
RefinedTextNoStrip(r) == PyStr(Get(r.refined_text, EmptyStr))
\* Line 323.
RefinedText(r) == Strip(PyStr(Get(r.refined_text, EmptyStr)))
\* Lines 373-377.
SummaryText(r) ==
  Strip(PyStr(Or(Get(r.summary_text, None), Or(Get(r.summary, None), EmptyStr))))
\* Line 390.
AudioUri(r) == Strip(PyStr(Get(r.audio_uri, EmptyStr)))
\* Line 312.
InputText(row) == Strip(PyStr(Or(row.raw_text, EmptyStr)))

\* Line 421 and the slice of line 430.
FailureReason(error) ==
  Prefix(Or(Strip(PyStr(error)), Str("Unknown pipeline error", 22)), 500)

DeliveredArgsNoSummary(w) ==
  [NoArgs EXCEPT !.status = "DELIVERED",
                 !.final_audio_uri = w.final_audio_uri,
                 !.failure_reason = EmptyStr]

\* The keyword arguments of the call of lines 395-402.
DeliveredArgs(w) ==
  [NoArgs EXCEPT !.status = "DELIVERED",
                 !.final_summary = w.summary_text,
                 !.final_audio_uri = w.final_audio_uri,
                 !.failure_reason = EmptyStr]

\* The keyword arguments of the update_task_internal call of each stage.
StageArgs(w, input_type) ==
  CASE w.stage = "ROUTED" -> [NoArgs EXCEPT !.status = "ROUTED"]
    [] w.stage = "TRANSCRIBING" -> [NoArgs EXCEPT !.status = "TRANSCRIBING"]
    [] w.stage = "REFINING" ->
         [NoArgs EXCEPT !.status = "REFINING",
                        !.transcript = IF input_type = "voice"
                                         THEN w.input_text ELSE None,
                        !.failure_reason = EmptyStr]
    [] w.stage = "TOOL_QUEUED" ->
         [NoArgs EXCEPT !.status = "TOOL_QUEUED",
                        !.refined_text = w.refined_text]
    [] w.stage = "TOOL_RUNNING" -> [NoArgs EXCEPT !.status = "TOOL_RUNNING"]
    [] w.stage = "SUMMARIZING" -> [NoArgs EXCEPT !.status = "SUMMARIZING"]
    [] w.stage = "TTS_GENERATING" ->
         [NoArgs EXCEPT !.status = "TTS_GENERATING",
                        !.final_summary = w.summary_text]
    [] w.stage = "DELIVERED" -> DeliveredArgs(w)
    [] w.stage = "FAILED" ->
         [NoArgs EXCEPT !.status = "FAILED",
                        !.failure_reason = FailureReason(w.error)]

\* An exception raised inside the try block: control goes to line 420.
Raise(w, error) == [w EXCEPT !.pc = "fail", !.error = error]

\* worker_loop, lines 436-437, and the load of lines 278-282 (tasks are
\* never deleted, so the row is there).
Dequeue ==
  /\ threads >= 1
  /\ worker.pc = "idle"
  /\ queue # <<>>
  /\ worker' = [IdleWorker EXCEPT !.pc = "read", !.task = Head(queue),
                                  !.stage = "ROUTED"]
  /\ queue' = Tail(queue)
  /\ UNCHANGED <<projects, tasks, history, tool_runs, patches, clock,
                 BOT_CALLBACK_URL, nPatch, resp, touched, probe, bot,
                 startVars, toolerVars>>

\* update_task_internal, lines 159-198, where the SELECT is the first
\* statement of its connection: the row is read, the transition validated
\* and the clock read.  A rejected transition raises: into the except block
\* of line 420, or, inside that block, out of process_task and, through the
\* finally of worker_loop, out of the worker thread.
StageRead ==
  /\ worker.pc = "read"
  /\ LET current_status == tasks[worker.task].status
         a == StageArgs(worker, tasks[worker.task].input_type)
     IN IF validate_task_transition(current_status, a.status)
          THEN /\ worker' = [worker EXCEPT !.pc = "write",
                                           !.current_status = current_status,
                                           !.updated_at = clock]
               /\ clock' = clock + 1
          ELSE /\ worker' = IF worker.stage = "FAILED"
                              THEN [worker EXCEPT !.pc = "dead"]
                              ELSE Raise(worker, TransitionError)
               /\ UNCHANGED clock
  /\ UNCHANGED <<projects, tasks, history, tool_runs, queue, patches,
                 BOT_CALLBACK_URL, nPatch, resp, touched, probe, bot,
                 startVars, toolerVars>>

\* What follows the commit of a stage write in process_task.
AfterWrite(w, row) ==
  CASE w.stage = "ROUTED" ->
         IF row.input_type = "voice"
           THEN [w EXCEPT !.pc = "read", !.stage = "TRANSCRIBING"]
           ELSE IF InputText(row) = EmptyStr
                  THEN Raise(w, TextEmptyError)
                  ELSE [w EXCEPT !.pc = "read", !.stage = "REFINING",
                                 !.input_text = InputText(row)]
    [] w.stage = "TOOL_QUEUED" -> [w EXCEPT !.pc = "read", !.stage = "TOOL_RUNNING"]
    [] w.stage = "FAILED" -> [w EXCEPT !.pc = "idle"]
    [] OTHER -> [w EXCEPT !.pc = "call"]

\* update_task_internal, lines 200-208, with the rest of the transaction of
\* the stage: UPDATE, history INSERT, the tool-run statements of lines
\* 329-334 and 339-344, commit.
StageWrite ==
  /\ worker.pc = "write"
  /\ LET t == worker.task
         a == StageArgs(worker, tasks[t].input_type)
         row == UtiRow(tasks[t], a, worker.updated_at)
     IN /\ tasks' = [tasks EXCEPT ![t] = row]
        /\ history' = history \o UtiHistory(t, worker.current_status, a,
                                            worker.updated_at)
        /\ CASE worker.stage = "TOOL_QUEUED" ->
                  /\ tool_runs' = Append(tool_runs,
                                         NewToolRun(t, "tooler",
                                                    worker.refined_text, clock))
                  /\ worker' = [AfterWrite(worker, row) EXCEPT
                                  !.tool_run_id = Len(tool_runs) + 1]
                  /\ clock' = clock + 1
             [] worker.stage = "TOOL_RUNNING" ->
                  /\ tool_runs' = [tool_runs EXCEPT ![worker.tool_run_id] =
                                     UpdateToolRun(@, "RUNNING", "None", clock,
                                                   0, clock + 1)]
                  /\ worker' = AfterWrite(worker, row)
                  /\ clock' = clock + 2
             [] OTHER ->
                  /\ worker' = AfterWrite(worker, row)
                  /\ UNCHANGED <<tool_runs, clock>>
  /\ UNCHANGED <<projects, queue, patches, BOT_CALLBACK_URL, nPatch, resp,
                 touched, probe, bot,
                 startVars, toolerVars>>

\* Lines 352-361: update_tool_run_internal opens the transaction, so the
\* SELECT, validation and UPDATE of update_task_internal that follow are
\* atomic with it; a rejected transition rolls the tool-run update back.
SummarizingTxn ==
  /\ worker.pc = "txn"
  /\ LET t == worker.task
         current_status == tasks[t].status
         a == StageArgs(worker, tasks[t].input_type)
     IN IF validate_task_transition(current_status, a.status)
          THEN /\ tool_runs' = [tool_runs EXCEPT ![worker.tool_run_id] =
                                  UpdateToolRun(@, "SUCCEEDED", "ok", 0, clock,
                                                clock + 1)]
               /\ tasks' = [tasks EXCEPT ![t] = UtiRow(@, a, clock + 2)]
               /\ history' = history \o UtiHistory(t, current_status, a,
                                                   clock + 2)
               /\ worker' = [worker EXCEPT !.pc = "call",
                                           !.current_status = current_status,
                                           !.updated_at = clock + 2]
               /\ clock' = clock + 3
          ELSE /\ worker' = Raise(worker, TransitionError)
               /\ clock' = clock + 2
               /\ UNCHANGED <<tasks, history, tool_runs>>
  /\ UNCHANGED <<projects, queue, patches, BOT_CALLBACK_URL, nPatch, resp,
                 touched, probe, bot,
                 startVars, toolerVars>>

\* Lines 294-301.
CallAsr ==
  /\ worker.pc = "call" /\ worker.stage = "TRANSCRIBING"
  /\ \E r \in AsrResponses :
       worker' =
         IF r.error # None THEN Raise([worker EXCEPT !.asr = r], r.error)
         ELSE IF AsrTranscript(r) = EmptyStr
           THEN Raise([worker EXCEPT !.asr = r], AsrEmptyError)
         ELSE [worker EXCEPT !.asr = r, !.input_text = AsrTranscript(r),
                             !.pc = "read", !.stage = "REFINING"]
  /\ UNCHANGED <<projects, tasks, history, tool_runs, queue, patches, clock,
                 BOT_CALLBACK_URL, nPatch, resp, touched, probe, bot,
                 startVars, toolerVars>>

\* Lines 319-325.
CallRefine ==
  /\ worker.pc = "call" /\ worker.stage = "REFINING"
  /\ \E r \in RefineResponses :
       worker' =
         IF r.error # None THEN Raise([worker EXCEPT !.refine = r], r.error)
         ELSE IF RefinedText(r) = EmptyStr
           THEN Raise([worker EXCEPT !.refine = r], RefineEmptyError)
         ELSE [worker EXCEPT !.refine = r, !.refined_text = RefinedText(r),
                             !.pc = "read", !.stage = "TOOL_QUEUED"]
  /\ UNCHANGED <<projects, tasks, history, tool_runs, queue, patches, clock,
                 BOT_CALLBACK_URL, nPatch, resp, touched, probe, bot,
                 startVars, toolerVars>>

\* Lines 347-350.
CallTool ==
  /\ worker.pc = "call" /\ worker.stage = "TOOL_RUNNING"
  /\ \E r \in ToolResponses :
       worker' =
         IF r.error # None THEN Raise([worker EXCEPT !.tool = r], r.error)
         ELSE [worker EXCEPT !.tool = r, !.pc = "txn", !.stage = "SUMMARIZING"]
  /\ UNCHANGED <<projects, tasks, history, tool_runs, queue, patches, clock,
                 BOT_CALLBACK_URL, nPatch, resp, touched, probe, bot,
                 startVars, toolerVars>>

\* Lines 363-382.
CallSummarize ==
  /\ worker.pc = "call" /\ worker.stage = "SUMMARIZING"
  /\ \E r \in SummarizeResponses :
       worker' =
         IF r.error # None THEN Raise([worker EXCEPT !.summarize = r], r.error)
         ELSE IF SummaryText(r) = EmptyStr
           THEN Raise([worker EXCEPT !.summarize = r], SummaryEmptyError)
         ELSE [worker EXCEPT
                 !.summarize = r, !.summary_text = SummaryText(r),
                 !.pc = "read",
                 !.stage = IF tasks[worker.task].input_type = "voice"
                             THEN "TTS_GENERATING" ELSE "DELIVERED"]
  /\ UNCHANGED <<projects, tasks, history, tool_runs, queue, patches, clock,
                 BOT_CALLBACK_URL, nPatch, resp, touched, probe, bot,
                 startVars, toolerVars>>

\* Lines 386-392.
CallTts ==
  /\ worker.pc = "call" /\ worker.stage = "TTS_GENERATING"
  /\ \E r \in TtsResponses :
       worker' =
         IF r.error # None THEN Raise([worker EXCEPT !.tts = r], r.error)
         ELSE IF AudioUri(r) = EmptyStr
           THEN Raise([worker EXCEPT !.tts = r], TtsEmptyError)
         ELSE [worker EXCEPT !.tts = r, !.final_audio_uri = AudioUri(r),
                             !.pc = "read", !.stage = "DELIVERED"]
  /\ UNCHANGED <<projects, tasks, history, tool_runs, queue, patches, clock,
                 BOT_CALLBACK_URL, nPatch, resp, touched, probe, bot,
                 startVars, toolerVars>>

\* Lines 408-418: the bot callback.  A requests.RequestException is logged;
\* any other exception reaches the except block of line 420.
BotCallbackPost ==
  /\ worker.pc = "call" /\ worker.stage = "DELIVERED"
  /\ IF ~BOT_CALLBACK_URL
       THEN worker' = [worker EXCEPT !.pc = "idle", !.callback = "unset"]
       ELSE \E outcome \in {"ok", "RequestException", "Exception"} :
              worker' =
                IF outcome = "Exception"
                  THEN Raise([worker EXCEPT !.callback = outcome],
                             Str("callback error", 40))
                  ELSE [worker EXCEPT !.pc = "idle", !.callback = outcome]
  /\ UNCHANGED <<projects, tasks, history, tool_runs, queue, patches, clock,
                 BOT_CALLBACK_URL, nPatch, resp, touched, probe,
                 startVars, toolerVars>>

\* The bot callback with a receiver that is not modelled.
BotCallback == BotCallbackPost /\ UNCHANGED bot

\* Lines 420-425: the failure routine reads the status again.
FailCheck ==
  /\ worker.pc = "fail"
  /\ worker' = IF tasks[worker.task].status # "FAILED"
                 THEN [worker EXCEPT !.pc = "read", !.stage = "FAILED"]
                 ELSE [worker EXCEPT !.pc = "idle"]
  /\ UNCHANGED <<projects, tasks, history, tool_runs, queue, patches, clock,
                 BOT_CALLBACK_URL, nPatch, resp, touched, probe, bot,
                 startVars, toolerVars>>

----------------------------------------------------------------------------

Next ==
  \/ CreateProject
  \/ CreateTask
  \/ \E h \in Handlers, t \in 1..MaxTasks, body \in PatchBodies :
       PatchBegin(h, t, body)
  \/ \E h \in Handlers : PatchCommit(h)
  \/ Dequeue
  \/ StageRead
  \/ StageWrite
  \/ SummarizingTxn
  \/ CallAsr
  \/ CallRefine
  \/ CallTool
  \/ CallSummarize
  \/ CallTts
  \/ BotCallback
  \/ FailCheck

Spec == Init /\ [][Next]_vars

----------------------------------------------------------------------------
(* validate_task_transition applied to every pair of task states *)

InitValidate ==
  /\ projects = 0
  /\ tasks = <<>>
  /\ history = <<>>
  /\ tool_runs = <<>>
  /\ queue = <<>>
  /\ worker = IdleWorker
  /\ patches = [h \in Handlers |-> NoPatch]
  /\ clock = 1
  /\ BOT_CALLBACK_URL = FALSE
  /\ nPatch = 0
  /\ resp = NoResp
  /\ touched = {}
  /\ probe \in [fn : {"validate_task_transition"},
                current_status : TASK_STATES, next_status : TASK_STATES,
                result : {"pending"}]
  /\ bot = NoBot
  /\ _worker_started = TRUE
  /\ _worker_lock = 0
  /\ starters = [c \in Starters |-> "done"]
  /\ threads = 1
  /\ ToolerIdle
  /\ RUN_AS_USER = ""

ApplyValidate ==
  /\ probe.fn = "validate_task_transition"
  /\ probe.result = "pending"
  /\ probe' = [probe EXCEPT !.result =
                 IF validate_task_transition(probe.current_status,
                                             probe.next_status)
                   THEN "returned" ELSE "aborted 400"]
  /\ UNCHANGED <<projects, tasks, history, tool_runs, queue, worker, patches,
                 clock, BOT_CALLBACK_URL, nPatch, resp, touched, bot,
                 startVars, toolerVars>>

SpecValidate == InitValidate /\ [][ApplyValidate]_vars

----------------------------------------------------------------------------
(* Claims *)

\* The transition table as the specification lists it.
ListedTransitions ==
  {<<"RECEIVED", "ROUTED">>, <<"ROUTED", "TRANSCRIBING">>,
   <<"ROUTED", "REFINING">>, <<"TRANSCRIBING", "REFINING">>,
   <<"REFINING", "TOOL_QUEUED">>, <<"TOOL_QUEUED", "TOOL_RUNNING">>,
   <<"TOOL_RUNNING", "SUMMARIZING">>, <<"SUMMARIZING", "TTS_GENERATING">>,
   <<"SUMMARIZING", "DELIVERED">>, <<"TTS_GENERATING", "DELIVERED">>}
  \cup
  {<<s, "FAILED">> : s \in TASK_STATES \ {"DELIVERED", "FAILED"}}

\* C1: validate_task_transition(current, next) returns exactly when next =
\* current or (current, next) is one of the listed transitions (the ten
\* forward ones and ->FAILED from the eight non-terminal states); for every
\* other pair of the ten states it aborts.
C1_ValidateMatchesTable ==
  (probe.fn = "validate_task_transition" /\ probe.result # "pending") =>
    (probe.result = "returned"
       <=> (\/ probe.next_status = probe.current_status
            \/ <<probe.current_status, probe.next_status>> \in ListedTransitions))

C1_Witness ==
  /\ probe.fn = "validate_task_transition"
  /\ probe.current_status = "DELIVERED" /\ probe.next_status = "REFINING"
  /\ probe.result = "aborted 400"

Terminal == {"DELIVERED", "FAILED"}

\* C2: once the stored status of a task is DELIVERED or FAILED, no step of a
\* PATCH handler or of the dispatcher (stage write, failure routine) changes
\* it, whatever the interleaving.
C2_TerminalNeverChanges ==
  [][\A t \in TaskIds :
       tasks[t].status \in Terminal => tasks'[t].status = tasks[t].status]_vars

ValidHistoryPair(from_status, to_status) ==
  \/ <<from_status, to_status>> \in ListedTransitions
  \/ from_status = "None" /\ to_status = "RECEIVED"
  \/ from_status = to_status

\* C3: every row of task_status_history is a listed transition, the initial
\* (null, RECEIVED), or (s, s).
C3_HistoryRowsValid ==
  \A i \in 1..Len(history) :
    ValidHistoryPair(history[i].from_status, history[i].to_status)

\* Rows written by POST /tasks, by a PATCH and by the failure routine.
C3_Witness ==
  \E t \in TaskIds :
    /\ resp.op = "PATCH" /\ resp.code = 200 /\ resp.task = t
    /\ worker.task = t /\ worker.stage = "FAILED" /\ worker.pc = "idle"
    /\ Len(HistoryOf(t)) >= 4
    /\ HistoryOf(t)[Len(HistoryOf(t))].to_status = "FAILED"

\* C4: the history rows of a task, in insertion order, form a chain from
\* (null, RECEIVED) whose last to_status is the stored status: every change
\* of the stored status appended one row starting at the status stored
\* before it, and a write that left the status alone appended none.
C4_HistoryChain ==
  \A t \in TaskIds :
    LET h == HistoryOf(t)
    IN /\ Len(h) >= 1
       /\ h[1].from_status = "None"
       /\ \A i \in 1..(Len(h) - 1) : h[i].to_status = h[i + 1].from_status
       /\ h[Len(h)].to_status = tasks[t].status

\* C5: a DELIVERED task has a non-empty final_summary and, when its
\* input_type is voice, a non-empty final_audio_uri.
C5_DeliveredHasSummary ==
  \A t \in TaskIds :
    tasks[t].status = "DELIVERED" =>
      /\ Truthy(tasks[t].final_summary)
      /\ tasks[t].input_type = "voice" => Truthy(tasks[t].final_audio_uri)

\* C6: a FAILED task has a failure_reason that is non-empty and at most 500
\* characters long.
C6_FailedHasReason ==
  \A t \in TaskIds :
    tasks[t].status = "FAILED" =>
      /\ Truthy(tasks[t].failure_reason)
      /\ tasks[t].failure_reason.len <= 500

\* A step in which a PATCH request is answered 400.
PatchAnswered400 ==
  /\ nPatch' = nPatch + 1
  /\ patches' = patches
  /\ resp'.op = "PATCH" /\ resp'.code = 400

\* C7: a PATCH answered 400 leaves the tasks table (updated_at included) and
\* the history unchanged; and PATCH {status: REFINING}, with or without
\* other fields, on a DELIVERED task is answered 400.
C7_RejectedPatchChangesNothing ==
  /\ [][PatchAnswered400 => (tasks' = tasks /\ history' = history)]_vars
  /\ [](\A t \in TaskIds : \A body \in PatchBodies :
          (tasks[t].status = "DELIVERED" /\ body.status = "REFINING")
            => PatchCode(body, TRUE, tasks[t].status) = 400)

C7_Witness ==
  /\ resp.op = "PATCH" /\ resp.code = 400
  /\ resp.message = "Invalid task status transition"
  /\ resp.task \in TaskIds
  /\ tasks[resp.task].status = "DELIVERED"

\* The dispatcher is through with task t: process_task returned or raised.
Finished(t) == worker.task = t /\ worker.pc \in {"idle", "dead"}
\* No PATCH request was addressed to task t.
Untouched(t) == t \notin touched
\* A JSON value that is a text with something other than whitespace in it.
NonBlank(v) == v \notin {Absent, None} /\ Strip(v) # EmptyStr
\* A JSON value that is a text, empty or of whitespace only.
BlankText(v) == v \notin {Absent, None} /\ Strip(v) = EmptyStr

RefineOk(r) == r.called /\ r.error = None /\ NonBlank(r.refined_text)
ToolOk(r) == r.called /\ r.error = None
\* The summarizer answered with a summary: under summary_text, or under
\* summary when there is no summary_text.
SummarizeOk(r) ==
  /\ r.called /\ r.error = None
  /\ \/ NonBlank(r.summary_text)
     \/ r.summary_text \in {Absent, None, EmptyStr} /\ NonBlank(r.summary)
ReturnedSummary(r) ==
  IF NonBlank(r.summary_text) THEN r.summary_text ELSE r.summary
TtsOk(r) == r.called /\ r.error = None /\ NonBlank(r.audio_uri)

TextHappyHistory ==
  << <<"None", "RECEIVED">>, <<"RECEIVED", "ROUTED">>, <<"ROUTED", "REFINING">>,
     <<"REFINING", "TOOL_QUEUED">>, <<"TOOL_QUEUED", "TOOL_RUNNING">>,
     <<"TOOL_RUNNING", "SUMMARIZING">>, <<"SUMMARIZING", "DELIVERED">> >>

TextHappyCase(t) ==
  /\ Finished(t) /\ Untouched(t)
  /\ tasks[t].input_type = "text" /\ NonBlank(tasks[t].raw_text)
  /\ RefineOk(worker.refine) /\ ToolOk(worker.tool)
  /\ SummarizeOk(worker.summarize)

\* C8: a text task with non-blank raw_text for which Refine, the tool call
\* and the Summarizer answered with non-empty results, and to which no
\* PATCH was addressed, ends DELIVERED with final_summary the returned
\* summary, final_audio_uri null, and exactly the seven history rows
\* null->RECEIVED->ROUTED->REFINING->TOOL_QUEUED->TOOL_RUNNING->SUMMARIZING
\* ->DELIVERED.
C8_TextHappyPath ==
  \A t \in TaskIds :
    TextHappyCase(t) =>
      /\ tasks[t].status = "DELIVERED"
      /\ tasks[t].final_summary = ReturnedSummary(worker.summarize)
      /\ tasks[t].final_audio_uri = None
      /\ Pairs(t) = TextHappyHistory

C8_Witness ==
  \E t \in TaskIds :
    /\ TextHappyCase(t)
    /\ tasks[t].status = "DELIVERED"
    /\ worker.summarize.summary_text = Absent

VoiceTranscriptTextCase(t) ==
  /\ Finished(t) /\ Untouched(t)
  /\ tasks[t].input_type = "voice"
  /\ worker.asr.called /\ worker.asr.error = None
  /\ NonBlank(worker.asr.transcript_text)

\* C9: for a voice task whose ASR answer carries a non-empty transcript
\* under transcript_text, the dispatcher stores it as transcript and moves
\* TRANSCRIBING->REFINING; when Refine, tool, Summarizer and TTS succeed as
\* well the task ends DELIVERED with final_audio_uri set and TTS_GENERATING
\* in its history.
C9_VoiceTranscriptTextKey ==
  \A t \in TaskIds :
    VoiceTranscriptTextCase(t) =>
      /\ tasks[t].transcript = Strip(worker.asr.transcript_text)
      /\ \E i \in 1..Len(Pairs(t)) : Pairs(t)[i] = <<"TRANSCRIBING", "REFINING">>
      /\ (/\ RefineOk(worker.refine) /\ ToolOk(worker.tool)
          /\ SummarizeOk(worker.summarize) /\ TtsOk(worker.tts))
         => /\ tasks[t].status = "DELIVERED"
            /\ Truthy(tasks[t].final_audio_uri)
            /\ \E i \in 1..Len(Pairs(t)) : Pairs(t)[i][2] = "TTS_GENERATING"

\* Where the word "empty" ends in the messages process_task raises.
EmptyWordEnd ==
  [b \in {"Text task has empty raw_text", "ASR returned empty transcript",
          "Refine returned empty refined_text",
          "Summarizer returned empty summary", "TTS returned empty audio_uri"}
     |-> CASE b = "Text task has empty raw_text" -> 19
           [] b = "ASR returned empty transcript" -> 18
           [] b = "Refine returned empty refined_text" -> 21
           [] b = "Summarizer returned empty summary" -> 25
           [] b = "TTS returned empty audio_uri" -> 18]

ContainsEmpty(v) == v.base \in DOMAIN EmptyWordEnd /\ v.len >= EmptyWordEnd[v.base]

RefineEmptyCase(t) ==
  /\ worker.task = t /\ Untouched(t)
  /\ worker.refine.called /\ worker.refine.error = None
  /\ BlankText(worker.refine.refined_text)

----------------------------------------------------------------------------
(* The failure routine and the worker loop *)

\* The step that ends process_task for a task whose try block raised.
FailureRoutineEnds ==
  /\ worker.error # None
  /\ worker.pc \in {"fail", "read", "write"}
  /\ worker'.pc \in {"idle", "dead"}

\* C11: when a step of process_task raised, the failure routine leaves the
\* row unchanged if it read the status FAILED, and otherwise ends with the
\* task FAILED and failure_reason the first 500 characters of the stripped
\* message ("Unknown pipeline error" for a blank message).
C11_FailureRoutineFailsTask ==
  [][FailureRoutineEnds =>
       IF worker.pc = "fail"
         THEN tasks' = tasks
         ELSE /\ tasks'[worker.task].status = "FAILED"
              /\ tasks'[worker.task].failure_reason =
                   FailureReason(worker.error)]_vars

\* C12: the worker thread outlives every task it processes.
C12_WorkerSurvives == worker.pc # "dead"

\* The bot callback of the worker's task has failed.
CallbackFailed == worker.callback \in {"RequestException", "Exception"}

\* C15: once the bot callback has failed, no step of the dispatcher changes
\* the status or the failure_reason of the task it delivered.
C15_CallbackFailureKeepsDelivered ==
  [][CallbackFailed /\ worker' # worker =>
       /\ tasks'[worker.task].status = tasks[worker.task].status
       /\ tasks'[worker.task].failure_reason =
            tasks[worker.task].failure_reason]_vars


----------------------------------------------------------------------------
(* Progress of the dispatcher *)

\* A step of the worker thread.
WorkerStep ==
  \/ Dequeue
  \/ StageRead
  \/ StageWrite
  \/ SummarizingTxn
  \/ CallAsr
  \/ CallRefine
  \/ CallTool
  \/ CallSummarize
  \/ CallTts
  \/ BotCallback
  \/ FailCheck

\* The worker thread is scheduled whenever it can take a step, every
\* collaborator call returns or raises, and every request handler that has
\* started runs to its end.
FairSpec ==
  /\ Spec
  /\ WF_vars(WorkerStep)
  /\ WF_vars(\E h \in Handlers : PatchCommit(h))

\* C13: every task that was created eventually has status DELIVERED or
\* FAILED, from whatever state it is in.
C13_EveryTaskTerminates ==
  \A t \in 1..MaxTasks :
    (t \in TaskIds) ~> (t \in TaskIds /\ tasks[t].status \in Terminal)


----------------------------------------------------------------------------
(* ensure_worker_started (lines 444-451) and the order of processing *)

WorkerLockIgnored == TRUE

\* Line 446: "with _worker_lock" is entered when no caller holds the lock.
WorkerLockFree == _worker_lock = 0

\* Line 446.
LockAcquire(c) ==
  /\ starters[c] = "call"
  /\ WorkerLockFree
  /\ _worker_lock' = c
  /\ starters' = [starters EXCEPT ![c] = "check"]
  /\ UNCHANGED <<projects, tasks, history, tool_runs, queue, worker, patches,
                 clock, BOT_CALLBACK_URL, nPatch, resp, touched, probe, bot,
                 _worker_started, threads, toolerVars>>

\* Lines 447-448: return, leaving the with block, when the flag is set.
StartCheck(c) ==
  /\ starters[c] = "check"
  /\ IF _worker_started
       THEN /\ starters' = [starters EXCEPT ![c] = "done"]
            /\ _worker_lock' = 0
       ELSE /\ starters' = [starters EXCEPT ![c] = "start"]
            /\ UNCHANGED _worker_lock
  /\ UNCHANGED <<projects, tasks, history, tool_runs, queue, worker, patches,
                 clock, BOT_CALLBACK_URL, nPatch, resp, touched, probe, bot,
                 _worker_started, threads, toolerVars>>

\* Lines 449-450: the thread running worker_loop is started.
StartThread(c) ==
  /\ starters[c] = "start"
  /\ threads' = threads + 1
  /\ starters' = [starters EXCEPT ![c] = "set"]
  /\ UNCHANGED <<projects, tasks, history, tool_runs, queue, worker, patches,
                 clock, BOT_CALLBACK_URL, nPatch, resp, touched, probe, bot,
                 _worker_started, _worker_lock, toolerVars>>

\* Line 451 and the end of the with block.
StartSet(c) ==
  /\ starters[c] = "set"
  /\ _worker_started' = TRUE
  /\ _worker_lock' = 0
  /\ starters' = [starters EXCEPT ![c] = "done"]
  /\ UNCHANGED <<projects, tasks, history, tool_runs, queue, worker, patches,
                 clock, BOT_CALLBACK_URL, nPatch, resp, touched, probe, bot,
                 threads, toolerVars>>

\* The module is being imported, on a database file that holds one project:
\* line 744 is about to call ensure_worker_started, and so is a second,
\* concurrent caller.
InitWorker ==
  /\ projects = 1
  /\ tasks = <<>>
  /\ history = <<>>
  /\ tool_runs = <<>>
  /\ queue = <<>>
  /\ worker = IdleWorker
  /\ patches = [h \in Handlers |-> NoPatch]
  /\ clock = 1
  /\ BOT_CALLBACK_URL \in BOOLEAN
  /\ nPatch = 0
  /\ resp = NoResp
  /\ touched = {}
  /\ probe = NoProbe
  /\ bot = NoBot
  /\ _worker_started = FALSE
  /\ _worker_lock = 0
  /\ starters = [c \in Starters |-> "call"]
  /\ threads = 0
  /\ ToolerIdle
  /\ RUN_AS_USER = ""

\* The payloads of the tasks created here: a text task, a voice task and
\* a payload POST /tasks rejects.
QueuedPayloads ==
  {TaskPayload(1, "text", Str("request", 9), None),
   TaskPayload(1, "voice", None, Str("uri", 12)),
   TaskPayload(1, "voice", None, None)}

\* Requests are served once line 744 has returned.
Serving == starters[1] = "done"

NextWorker ==
  \/ \E c \in Starters : LockAcquire(c)
  \/ \E c \in Starters : StartCheck(c)
  \/ \E c \in Starters : StartThread(c)
  \/ \E c \in Starters : StartSet(c)
  \/ Serving /\ CreateTaskFrom(QueuedPayloads, MaxQueued)
  \/ WorkerStep

SpecWorker == InitWorker /\ [][NextWorker]_vars

\* The ids waiting in the queue.
Queued == {queue[i] : i \in 1..Len(queue)}

\* C14: at most one worker thread is ever started, and the status of a task
\* is written only by the processing of that task, when every task enqueued
\* before it has left the queue and is no longer being processed.
C14_OneWorkerFifo ==
  /\ [](threads <= 1)
  /\ [][\A b \in TaskIds :
          tasks'[b].status # tasks[b].status =>
            /\ worker.task = b
            /\ \A a \in 1..(b - 1) : a \notin Queued]_vars

\* The second task enqueued is being processed after the first one ended.
C14_Witness ==
  /\ threads = 1
  /\ ToolerIdle
  /\ RUN_AS_USER = ""
  /\ starters = [c \in Starters |-> "done"]
  /\ Len(tasks) = 2
  /\ tasks[1].status \in Terminal
  /\ worker.task = 2
  /\ tasks[2].status = "TOOL_RUNNING"


----------------------------------------------------------------------------
(* The tool-run supervisor (services/tooler/app.py): adapters               *)

\* What an adapter call gives: a ToolAdapterResult (command or
\* startup_error, the other being "None"), or abort(code) when code is not 0.
ToolAdapterResult(command, startup_error) ==
  [abort |-> 0, command |-> command, startup_error |-> startup_error]
Abort(code) == [abort |-> code, command |-> "None", startup_error |-> "None"]

\* The input object of a request together with what the adapters find on
\* the machine: workdir is "blank", "nodir" (not an existing directory) or
\* "dir"; git says whether workdir/.git exists; mode is the resolved mode;
\* which is shutil.which("codex") is not None; auth is auth.json existing.
ToolInput(prompt, workdir, git, skip, mode, subject, sleep, mock, which, auth) ==
  [prompt |-> prompt, workdir |-> workdir, git |-> git,
   skip_git_repo_check |-> skip, mode |-> mode, subject |-> subject,
   sleep_seconds |-> sleep, TOOLER_CODEX_MOCK |-> mock, which |-> which,
   auth |-> auth]

\* Lines 221-235 and 122-123.
_build_dummy_adapter(payload) ==
  IF payload.sleep_seconds # "numeric" THEN Abort(400)
  ELSE ToolAdapterResult("bash dummy", "None")

\* Lines 55-119.
_build_git_autocommit_adapter(payload) ==
  IF payload.workdir = "blank" THEN Abort(400)
  ELSE IF payload.workdir # "dir" THEN Abort(400)
  ELSE IF ~payload.git
    THEN ToolAdapterResult("None", "Directory is not a git repository")
  ELSE IF Strip(PyStr(payload.subject)) = EmptyStr THEN Abort(400)
  ELSE ToolAdapterResult("python git-autocommit", "None")

BuildCodexAdapterAuthFirst(payload) ==
  IF Strip(PyStr(Get(payload.prompt, EmptyStr))) = EmptyStr THEN Abort(400)
  ELSE IF payload.workdir = "blank" THEN Abort(400)
  ELSE IF payload.workdir # "dir" THEN Abort(400)
  ELSE IF ~payload.skip_git_repo_check /\ ~payload.git
    THEN ToolAdapterResult("None", "Codex requires a Git repository workdir")
  ELSE IF payload.TOOLER_CODEX_MOCK
    THEN ToolAdapterResult("bash codex-mock", "None")
  ELSE IF ~payload.auth
    THEN ToolAdapterResult("None", "Codex is not authenticated")
  ELSE IF ~payload.which
    THEN ToolAdapterResult("None", "Codex CLI binary is not available")
  ELSE IF payload.mode \notin {"readonly", "full-auto"} THEN Abort(400)
  ELSE ToolAdapterResult("codex exec", "None")

\* Lines 126-200.
_build_codex_adapter(payload) ==
  IF Strip(PyStr(Get(payload.prompt, EmptyStr))) = EmptyStr THEN Abort(400)
  ELSE IF payload.workdir = "blank" THEN Abort(400)
  ELSE IF payload.workdir # "dir" THEN Abort(400)
  ELSE IF ~payload.skip_git_repo_check /\ ~payload.git
    THEN ToolAdapterResult("None", "Codex requires a Git repository workdir")
  ELSE IF payload.TOOLER_CODEX_MOCK
    THEN ToolAdapterResult("bash codex-mock", "None")
  ELSE IF ~payload.which
    THEN ToolAdapterResult("None", "Codex CLI binary is not available")
  ELSE IF ~payload.auth
    THEN ToolAdapterResult("None", "Codex is not authenticated")
  ELSE IF payload.mode \notin {"readonly", "full-auto"} THEN Abort(400)
  ELSE ToolAdapterResult("codex exec", "None")

\* Lines 203-207.
TOOL_ADAPTERS ==
  {Str("dummy", 5), Str("codex", 5), Str("git-autocommit", 14)}

\* Lines 238-251.
_resolve_tool_adapter(tool_name, payload) ==
  IF tool_name \notin TOOL_ADAPTERS THEN Abort(400)
  ELSE LET result ==
             CASE tool_name = Str("dummy", 5) -> _build_dummy_adapter(payload)
               [] tool_name = Str("codex", 5) -> _build_codex_adapter(payload)
               [] OTHER -> _build_git_autocommit_adapter(payload)
       IN IF result.abort # 0 THEN result
          ELSE IF result.command = "None" /\ result.startup_error = "None"
            THEN Abort(500)
          ELSE IF result.command # "None" /\ result.startup_error # "None"
            THEN Abort(500)
          ELSE result


----------------------------------------------------------------------------
(* The tool-run supervisor: POST /tool-runs (lines 474-518)                 *)

\* A request body with the facts the adapters look up.
ToolRunRequest(tool_name, input, callback_url) ==
  [tool_name |-> tool_name, input |-> input, callback_url |-> callback_url]

\* An input every adapter accepts, in a git repository, with codex installed
\* and logged in.
GoodInput ==
  ToolInput(Str("prompt", 6), "dir", TRUE, FALSE, "readonly",
            Str("feat: update", 12), "numeric", FALSE, TRUE, TRUE)

ToolRunRequests ==
  {ToolRunRequest(n, GoodInput, Absent) :
     n \in {Absent, Blank, Str("rm-rf", 5), Str("dummy", 5), Str("codex", 5),
            Str("git-autocommit", 14)}}
  \cup
  {ToolRunRequest(n, GoodInput, Str("http://cb", 9)) :
     n \in {Str("rm-rf", 5), Str("dummy", 5), Str("git-autocommit", 14)}}
  \cup
  {ToolRunRequest(Str("dummy", 5),
                  [GoodInput EXCEPT !.sleep_seconds = "text"], Absent),
   ToolRunRequest(Str("codex", 5), [GoodInput EXCEPT !.prompt = Absent],
                  Absent),
   ToolRunRequest(Str("codex", 5), [GoodInput EXCEPT !.workdir = "nodir"],
                  Absent),
   ToolRunRequest(Str("codex", 5), [GoodInput EXCEPT !.git = FALSE],
                  Str("http://cb", 9)),
   ToolRunRequest(Str("codex", 5), [GoodInput EXCEPT !.which = FALSE], Absent),
   ToolRunRequest(Str("codex", 5), [GoodInput EXCEPT !.auth = FALSE], Absent),
   ToolRunRequest(Str("codex", 5), [GoodInput EXCEPT !.mode = "bogus"],
                  Absent),
   ToolRunRequest(Str("git-autocommit", 14),
                  [GoodInput EXCEPT !.workdir = "blank"], Absent),
   ToolRunRequest(Str("git-autocommit", 14),
                  [GoodInput EXCEPT !.workdir = "nodir"], Absent),
   ToolRunRequest(Str("git-autocommit", 14),
                  [GoodInput EXCEPT !.git = FALSE], Absent),
   ToolRunRequest(Str("git-autocommit", 14),
                  [GoodInput EXCEPT !.subject = Blank], Absent)}

\* Line 477.
RequestToolName(payload) == Strip(PyStr(Get(payload.tool_name, EmptyStr)))

\* Lines 477-484: the status code create_tool_run aborts with, 0 when it
\* goes on to create the run.
CreateToolRunAbort(payload) ==
  IF RequestToolName(payload) = EmptyStr THEN 400
  ELSE _resolve_tool_adapter(RequestToolName(payload), payload.input).abort

ToolRunNoArtifacts(tool_name, callback_url, startup_error) ==
  [tool_name |-> tool_name, status |-> "QUEUED", artifacts |-> <<>>,
   callback_url |-> callback_url, pid |-> 0, process |-> 0,
   exit_code |-> NoExitCode, started_at |-> 0, finished_at |-> 0,
   callback_sent |-> FALSE, startup_error |-> startup_error,
   branch |-> "None", commit_hash |-> "None"]

\* Lines 493-502 (pid, process 0 and exit_code NoExitCode stand for None).
ToolRun(tool_name, callback_url, startup_error) ==
  [tool_name |-> tool_name, status |-> "QUEUED",
   artifacts |-> <<"stdout.log", "stderr.log">>,
   callback_url |-> callback_url, pid |-> 0, process |-> 0,
   exit_code |-> NoExitCode, started_at |-> 0, finished_at |-> 0,
   callback_sent |-> FALSE, startup_error |-> startup_error,
   branch |-> "None", commit_hash |-> "None"]

\* The watcher thread as threading.Thread(...).start() leaves it.
NewRunner(command) ==
  [pc |-> "359", command |-> command, process |-> 0,
   exit_code |-> NoExitCode, todo |-> <<>>, error |-> "None",
   payload |-> NoPayload]

NoProc == [state |-> "none", code |-> NoExitCode, markers |-> FALSE]
NoFiles == [stdout |-> "None", stderr |-> "None"]

CreatesRunAlways(payload) == TRUE

\* Whether create_tool_run goes past line 484 for a request.
CreatesRun(payload) == CreateToolRunAbort(payload) = 0

\* Lines 476-513: a request up to thread.start(), or up to its abort; the
\* record of a client that watches the call is not mentioned.
StartToolRun(requests) ==
  \E payload \in requests :
    /\ CreateToolRunAbort(payload) = 0 => Len(_tool_runs) < MaxRuns
    /\ IF CreatesRun(payload)
         THEN LET adapter_result ==
                    _resolve_tool_adapter(RequestToolName(payload),
                                          payload.input)
                  callback_url ==
                    Or(Strip(PyStr(Get(payload.callback_url, EmptyStr))), None)
              IN /\ _tool_runs' =
                      Append(_tool_runs,
                             ToolRun(RequestToolName(payload), callback_url,
                                     adapter_result.startup_error))
                 /\ runners' = Append(runners, NewRunner(adapter_result.command))
                 /\ procs' = Append(procs, NoProc)
                 /\ files' = Append(files, NoFiles)
                 /\ creates' = Append(creates, "sleep")
         ELSE UNCHANGED <<_tool_runs, runners, procs, files, creates>>
    /\ tresp' = IF CreateToolRunAbort(payload) = 0 THEN tresp
                ELSE [NoToolerResp EXCEPT
                        !.op = "POST /tool-runs",
                        !.code = CreateToolRunAbort(payload)]
    /\ UNCHANGED <<projects, tasks, history, tool_runs, queue, worker, patches,
                   clock, BOT_CALLBACK_URL, nPatch, resp, touched, bot,
                   startVars, gets, posts, RUN_AS_USER>>

CreateToolRun == StartToolRun(ToolRunRequests) /\ UNCHANGED probe

\* Lines 516-518: after the sleep the handler reads pid and status.
CreateRespond(r) ==
  /\ r \in RunIds
  /\ creates[r] = "sleep"
  /\ creates' = [creates EXCEPT ![r] = "done"]
  /\ tresp' = [NoToolerResp EXCEPT
                 !.op = "POST /tool-runs", !.code = 201, !.run = r,
                 !.pid = _tool_runs[r].pid, !.status = _tool_runs[r].status]
  /\ UNCHANGED <<trackerVars, _tool_runs, runners, procs, files, gets, posts,
                 RUN_AS_USER>>


----------------------------------------------------------------------------
(* The tool-run supervisor: _send_callback (lines 329-355)                  *)

\* Line 330.
CallbackSkipped(run) == ~Truthy(run.callback_url) \/ run.callback_sent

\* Lines 333-344.
CallbackPayload(r) ==
  [tool_run_id |-> r, status |-> _tool_runs[r].status,
   pid |-> _tool_runs[r].pid, exit_code |-> _tool_runs[r].exit_code,
   artifacts |-> _tool_runs[r].artifacts]

\* What urlopen does (line 352): it returns, it raises URLError or
\* TimeoutError, or it raises another exception.
CallbackOutcomes == {"ok", "URLError", "Exception"}

----------------------------------------------------------------------------
(* The tool-run supervisor: the subprocess                                  *)

\* The exit codes a subprocess ends with.
ExitCodes == {0, 1}

ExitStatusStaysRunning(exit_code) == "RUNNING"

ExitStatusAlwaysSucceeded(exit_code) == "SUCCEEDED"

\* Line 424 and line 534.
ExitStatus(exit_code) == IF exit_code = 0 THEN "SUCCEEDED" ELSE "FAILED"

\* The subprocess of run r exits.  The git-autocommit script prints its
\* markers after rev-parse (lines 101-103), so always when it exits 0 and,
\* when the push fails, also when it exits 1.
ProcExit(r) ==
  /\ r \in RunIds
  /\ procs[r].state = "running"
  /\ \E code \in ExitCodes, markers \in BOOLEAN :
       /\ markers => _tool_runs[r].tool_name = Str("git-autocommit", 14)
       /\ (_tool_runs[r].tool_name = Str("git-autocommit", 14) /\ code = 0)
            => markers
       /\ procs' = [procs EXCEPT ![r] = [state |-> "exited", code |-> code,
                                         markers |-> markers]]
       /\ files' = [files EXCEPT ![r].stdout =
                      IF markers THEN "markers" ELSE "output"]
  /\ UNCHANGED <<trackerVars, _tool_runs, runners, gets, creates, posts, tresp,
                 RUN_AS_USER>>

----------------------------------------------------------------------------
(* The tool-run supervisor: _runner_thread (lines 358-439)                  *)

StartupFailureNoStderr == <<"status", "exit_code", "finished_at">>

\* The statements of a failure branch, in the order the branch runs them.
StartupFailure == <<"status", "exit_code", "finished_at", "stderr">>
SpawnFailure == <<"status", "finished_at", "exit_code", "stderr">>

\* Lines 359-366: the run is looked up and marked RUNNING.
RunnerLookup(r) ==
  /\ r \in RunIds
  /\ runners[r].pc = "359"
  /\ runners' = [runners EXCEPT ![r].pc = "365"]
  /\ UNCHANGED <<trackerVars, _tool_runs, procs, files, gets, creates, posts,
                 tresp, RUN_AS_USER>>

\* Line 365.
RunnerRunning(r) ==
  /\ r \in RunIds
  /\ runners[r].pc = "365"
  /\ _tool_runs' = [_tool_runs EXCEPT ![r].status = "RUNNING"]
  /\ runners' = [runners EXCEPT ![r].pc = "366"]
  /\ UNCHANGED <<trackerVars, procs, files, gets, creates, posts, tresp,
                 RUN_AS_USER>>

\* Lines 366-396: started_at, then the branch taken: startup_error,
\* no command, unknown unix user, or on to the files.
RunnerStarted(r) ==
  /\ r \in RunIds
  /\ runners[r].pc = "366"
  /\ _tool_runs' = [_tool_runs EXCEPT ![r].started_at = 1]
  /\ runners' =
       [runners EXCEPT ![r] =
          IF _tool_runs[r].startup_error # "None"
            THEN [@ EXCEPT !.pc = "fail", !.todo = StartupFailure,
                           !.error = _tool_runs[r].startup_error]
          ELSE IF @.command = "None"
            THEN [@ EXCEPT !.pc = "fail", !.todo = StartupFailure,
                           !.error = "Tool command is not configured"]
          ELSE IF RUN_AS_USER # ""
            THEN [@ EXCEPT !.pc = "fail", !.todo = SpawnFailure,
                           !.error = "Configured unix user does not exist"]
          ELSE [@ EXCEPT !.pc = "398"]]
  /\ UNCHANGED <<trackerVars, procs, files, gets, creates, posts, tresp,
                 RUN_AS_USER>>

\* One statement of a failure branch (lines 369-372, 377-380, 389-394,
\* 411-415); after the last one the callback is sent.
RunnerFail(r) ==
  /\ r \in RunIds
  /\ runners[r].pc = "fail"
  /\ LET stmt == Head(runners[r].todo)
     IN /\ _tool_runs' =
             CASE stmt = "status" -> [_tool_runs EXCEPT ![r].status = "FAILED"]
               [] stmt = "exit_code" -> [_tool_runs EXCEPT ![r].exit_code = -1]
               [] stmt = "finished_at" ->
                    [_tool_runs EXCEPT ![r].finished_at = 1]
               [] OTHER -> _tool_runs
        /\ files' = IF stmt = "stderr"
                      THEN [files EXCEPT ![r].stderr = runners[r].error]
                      ELSE files
  /\ runners' = [runners EXCEPT
                   ![r].todo = Tail(@),
                   ![r].pc = IF Len(runners[r].todo) = 1 THEN "330" ELSE "fail"]
  /\ UNCHANGED <<trackerVars, procs, gets, creates, posts, tresp, RUN_AS_USER>>

\* Lines 398-400: the log files are opened for writing; an OSError here
\* ends the thread.
RunnerOpen(r) ==
  /\ r \in RunIds
  /\ runners[r].pc = "398"
  /\ \E outcome \in {"ok", "OSError"} :
       IF outcome = "ok"
         THEN /\ files' = [files EXCEPT ![r] = [stdout |-> "", stderr |-> ""]]
              /\ runners' = [runners EXCEPT ![r].pc = "402"]
         ELSE /\ runners' = [runners EXCEPT ![r].pc = "dead"]
              /\ UNCHANGED files
  /\ UNCHANGED <<trackerVars, _tool_runs, procs, gets, creates, posts, tresp,
                 RUN_AS_USER>>

\* Lines 401-417: Popen starts the subprocess or raises.
RunnerPopen(r) ==
  /\ r \in RunIds
  /\ runners[r].pc = "402"
  /\ \E outcome \in {"ok", "Exception"} :
       IF outcome = "ok"
         THEN /\ procs' = [procs EXCEPT ![r].state = "running"]
              /\ runners' = [runners EXCEPT ![r].pc = "419", ![r].process = r]
         ELSE /\ runners' = [runners EXCEPT
                               ![r].pc = "fail", ![r].todo = SpawnFailure,
                               ![r].error = "Failed to start process"]
              /\ UNCHANGED procs
  /\ UNCHANGED <<trackerVars, _tool_runs, files, gets, creates, posts, tresp,
                 RUN_AS_USER>>

\* Line 419.
RunnerPid(r) ==
  /\ r \in RunIds
  /\ runners[r].pc = "419"
  /\ _tool_runs' = [_tool_runs EXCEPT ![r].pid = 100 + r]
  /\ runners' = [runners EXCEPT ![r].pc = "420"]
  /\ UNCHANGED <<trackerVars, procs, files, gets, creates, posts, tresp,
                 RUN_AS_USER>>

\* Line 420.
RunnerProcess(r) ==
  /\ r \in RunIds
  /\ runners[r].pc = "420"
  /\ _tool_runs' = [_tool_runs EXCEPT ![r].process = runners[r].process]
  /\ runners' = [runners EXCEPT ![r].pc = "421"]
  /\ UNCHANGED <<trackerVars, procs, files, gets, creates, posts, tresp,
                 RUN_AS_USER>>

\* Line 421: process.wait() returns when the subprocess has exited.
RunnerWait(r) ==
  /\ r \in RunIds
  /\ runners[r].pc = "421"
  /\ procs[r].state = "exited"
  /\ runners' = [runners EXCEPT ![r].pc = "422",
                                ![r].exit_code = procs[r].code]
  /\ UNCHANGED <<trackerVars, _tool_runs, procs, files, gets, creates, posts,
                 tresp, RUN_AS_USER>>

\* Lines 422-425, one statement at a time, then the leaving of the with
\* block; pc is the line about to run.
RunnerFinalize(r) ==
  /\ r \in RunIds
  /\ runners[r].pc \in {"422", "423", "424", "425"}
  /\ _tool_runs' =
       CASE runners[r].pc = "422" ->
              [_tool_runs EXCEPT ![r].exit_code = runners[r].exit_code]
         [] runners[r].pc = "423" -> [_tool_runs EXCEPT ![r].finished_at = 1]
         [] runners[r].pc = "424" ->
              [_tool_runs EXCEPT ![r].status = ExitStatus(runners[r].exit_code)]
         [] OTHER -> [_tool_runs EXCEPT ![r].process = 0]
  /\ runners' = [runners EXCEPT ![r].pc =
                   CASE @ = "422" -> "423"
                     [] @ = "423" -> "424"
                     [] @ = "424" -> "425"
                     [] OTHER -> "427"]
  /\ UNCHANGED <<trackerVars, procs, files, gets, creates, posts, tresp,
                 RUN_AS_USER>>

\* Lines 427-432: the markers of a git-autocommit run are read from
\* stdout.log into branch and commit_hash.
RunnerMarkers(r) ==
  /\ r \in RunIds
  /\ runners[r].pc = "427"
  /\ IF _tool_runs[r].tool_name = Str("git-autocommit", 14)
        /\ files[r].stdout # "None"
       THEN /\ _tool_runs' =
                 IF files[r].stdout = "markers"
                   THEN [_tool_runs EXCEPT ![r].branch = "autobot/today",
                                           ![r].commit_hash = "abc123"]
                   ELSE _tool_runs
            /\ runners' = [runners EXCEPT ![r].pc = "434"]
       ELSE /\ runners' = [runners EXCEPT ![r].pc = "330"]
            /\ UNCHANGED _tool_runs
  /\ UNCHANGED <<trackerVars, procs, files, gets, creates, posts, tresp,
                 RUN_AS_USER>>

\* "x not in run.artifacts" of lines 434 and 436.
InArtifacts(run, x) == \E i \in 1..Len(run.artifacts) : run.artifacts[i] = x

\* Lines 434-437: the branch and commit_hash entries are appended.
RunnerArtifacts(r) ==
  /\ r \in RunIds
  /\ runners[r].pc \in {"434", "436"}
  /\ LET run == _tool_runs[r]
         entry == IF runners[r].pc = "434" THEN "branch:autobot/today"
                  ELSE "commit_hash:abc123"
         value == IF runners[r].pc = "434" THEN run.branch ELSE run.commit_hash
     IN _tool_runs' =
          IF value # "None" /\ ~InArtifacts(run, entry)
            THEN [_tool_runs EXCEPT ![r].artifacts = Append(@, entry)]
            ELSE _tool_runs
  /\ runners' = [runners EXCEPT ![r].pc = IF @ = "434" THEN "436" ELSE "330"]
  /\ UNCHANGED <<trackerVars, procs, files, gets, creates, posts, tresp,
                 RUN_AS_USER>>

\* _send_callback called by the watcher, lines 330-350: the check and the
\* payload.
RunnerCallbackCheck(r) ==
  /\ r \in RunIds
  /\ runners[r].pc = "330"
  /\ runners' = [runners EXCEPT ![r] =
                   IF CallbackSkipped(_tool_runs[r])
                     THEN [@ EXCEPT !.pc = "done"]
                     ELSE [@ EXCEPT !.pc = "352",
                                    !.payload = CallbackPayload(r)]]
  /\ UNCHANGED <<trackerVars, _tool_runs, procs, files, gets, creates, posts,
                 tresp, RUN_AS_USER>>

\* Lines 351-355: the POST.  An exception other than URLError and
\* TimeoutError leaves _send_callback and ends the thread.
RunnerCallbackPost(r) ==
  /\ r \in RunIds
  /\ runners[r].pc = "352"
  /\ \E outcome \in CallbackOutcomes :
       /\ posts' = Append(posts, [payload |-> runners[r].payload,
                                  outcome |-> outcome, by |-> "watcher"])
       /\ _tool_runs' = IF outcome = "ok"
                          THEN [_tool_runs EXCEPT ![r].callback_sent = TRUE]
                          ELSE _tool_runs
       /\ runners' = [runners EXCEPT ![r].pc =
                        IF outcome = "Exception" THEN "dead" ELSE "done"]
  /\ UNCHANGED <<trackerVars, procs, files, gets, creates, tresp, RUN_AS_USER>>


----------------------------------------------------------------------------
(* The tool-run supervisor: GET /tool-runs/{id} (lines 521-555)             *)

\* Lines 523-527: the lookup, for the id of a run or for an unknown id, by
\* the first handler that is free.
GetBegin(g) ==
  /\ gets[g].pc = "idle"
  /\ \A f \in GetHandlers : f < g => gets[f].pc # "idle"
  /\ \E id \in 1..(MaxRuns + 1) :
       IF id \in RunIds
         THEN /\ gets' = [gets EXCEPT ![g] = [NoGet EXCEPT !.pc = "529",
                                                           !.run = id]]
              /\ UNCHANGED tresp
         ELSE /\ tresp' = [NoToolerResp EXCEPT !.op = "GET /tool-runs",
                                               !.code = 404]
              /\ UNCHANGED gets
  /\ UNCHANGED <<trackerVars, _tool_runs, runners, procs, files, creates,
                 posts, RUN_AS_USER>>

\* Line 529.
GetCheck(g) ==
  /\ gets[g].pc = "529"
  /\ gets' = [gets EXCEPT ![g].pc =
                IF _tool_runs[gets[g].run].process # 0 THEN "530" ELSE "538"]
  /\ UNCHANGED <<trackerVars, _tool_runs, runners, procs, files, creates,
                 posts, tresp, RUN_AS_USER>>

PollAlwaysZero(r) == 0

\* process.poll(): the exit code of an exited subprocess, None otherwise.
Poll(r) == IF procs[r].state = "exited" THEN procs[r].code ELSE NoExitCode

\* Lines 530-531: run.process is read again; when the watcher has set it
\* to None in between, None.poll() raises AttributeError and the request
\* is answered 500.
GetPoll(g) ==
  /\ gets[g].pc = "530"
  /\ LET r == gets[g].run
     IN IF _tool_runs[r].process = 0
          THEN /\ gets' = [gets EXCEPT ![g] = NoGet]
               /\ tresp' = [NoToolerResp EXCEPT !.op = "GET /tool-runs",
                                                 !.code = 500, !.run = r]
          ELSE /\ gets' = [gets EXCEPT
                             ![g].exit_code = Poll(r),
                             ![g].pc = IF Poll(r) # NoExitCode
                                         THEN "532" ELSE "538"]
               /\ UNCHANGED tresp
  /\ UNCHANGED <<trackerVars, _tool_runs, runners, procs, files, creates,
                 posts, RUN_AS_USER>>

\* Lines 532-535, one statement at a time; pc is the line about to run.
GetFinalize(g) ==
  /\ gets[g].pc \in {"532", "533", "534", "535"}
  /\ LET r == gets[g].run
     IN _tool_runs' =
          CASE gets[g].pc = "532" ->
                 [_tool_runs EXCEPT ![r].exit_code = gets[g].exit_code]
            [] gets[g].pc = "533" -> [_tool_runs EXCEPT ![r].finished_at = 1]
            [] gets[g].pc = "534" ->
                 [_tool_runs EXCEPT ![r].status = ExitStatus(gets[g].exit_code)]
            [] OTHER -> [_tool_runs EXCEPT ![r].process = 0]
  /\ gets' = [gets EXCEPT ![g].pc =
                CASE @ = "532" -> "533"
                  [] @ = "533" -> "534"
                  [] @ = "534" -> "535"
                  [] OTHER -> "330"]
  /\ UNCHANGED <<trackerVars, runners, procs, files, creates, posts, tresp,
                 RUN_AS_USER>>

\* _send_callback called at line 536, lines 330-350.
GetCallbackCheck(g) ==
  /\ gets[g].pc = "330"
  /\ gets' = [gets EXCEPT ![g] =
                IF CallbackSkipped(_tool_runs[gets[g].run])
                  THEN [@ EXCEPT !.pc = "538"]
                  ELSE [@ EXCEPT !.pc = "352",
                                 !.payload = CallbackPayload(gets[g].run)]]
  /\ UNCHANGED <<trackerVars, _tool_runs, runners, procs, files, creates,
                 posts, tresp, RUN_AS_USER>>

\* Lines 351-355 under line 536: an exception other than URLError and
\* TimeoutError leaves the handler and the request is answered 500.
GetCallbackPost(g) ==
  /\ gets[g].pc = "352"
  /\ LET r == gets[g].run
     IN \E outcome \in CallbackOutcomes :
          /\ posts' = Append(posts, [payload |-> gets[g].payload,
                                     outcome |-> outcome, by |-> "GET"])
          /\ _tool_runs' = IF outcome = "ok"
                             THEN [_tool_runs EXCEPT ![r].callback_sent = TRUE]
                             ELSE _tool_runs
          /\ IF outcome = "Exception"
               THEN /\ gets' = [gets EXCEPT ![g] = NoGet]
                    /\ tresp' = [NoToolerResp EXCEPT !.op = "GET /tool-runs",
                                                      !.code = 500, !.run = r]
               ELSE /\ gets' = [gets EXCEPT ![g].pc = "538"]
                    /\ UNCHANGED tresp
  /\ UNCHANGED <<trackerVars, runners, procs, files, creates, RUN_AS_USER>>

\* Lines 538-555: the response shows the fields of the run as they are now.
GetRespond(g) ==
  /\ gets[g].pc = "538"
  /\ LET r == gets[g].run
     IN tresp' = [op |-> "GET /tool-runs", code |-> 200, run |-> r,
                  status |-> _tool_runs[r].status, pid |-> _tool_runs[r].pid,
                  exit_code |-> _tool_runs[r].exit_code,
                  artifacts |-> _tool_runs[r].artifacts]
  /\ gets' = [gets EXCEPT ![g] = NoGet]
  /\ UNCHANGED <<trackerVars, _tool_runs, runners, procs, files, creates,
                 posts, RUN_AS_USER>>

----------------------------------------------------------------------------
(* The tool-run supervisor as a whole *)

\* The supervisor after import, with or without a unix user configured
\* that does not exist; the tracker takes no step.
InitTooler ==
  /\ projects = 0
  /\ tasks = <<>>
  /\ history = <<>>
  /\ tool_runs = <<>>
  /\ queue = <<>>
  /\ worker = IdleWorker
  /\ patches = [h \in Handlers |-> NoPatch]
  /\ clock = 1
  /\ BOT_CALLBACK_URL = FALSE
  /\ nPatch = 0
  /\ resp = NoResp
  /\ touched = {}
  /\ probe = NoProbe
  /\ bot = NoBot
  /\ _worker_started = TRUE
  /\ _worker_lock = 0
  /\ starters = [c \in Starters |-> "done"]
  /\ threads = 1
  /\ ToolerIdle
  /\ RUN_AS_USER \in {"", "ghost"}

\* A step of the watcher thread of run r.
_runner_thread(r) ==
  \/ RunnerLookup(r)
  \/ RunnerRunning(r)
  \/ RunnerStarted(r)
  \/ RunnerFail(r)
  \/ RunnerOpen(r)
  \/ RunnerPopen(r)
  \/ RunnerPid(r)
  \/ RunnerProcess(r)
  \/ RunnerWait(r)
  \/ RunnerFinalize(r)
  \/ RunnerMarkers(r)
  \/ RunnerArtifacts(r)
  \/ RunnerCallbackCheck(r)
  \/ RunnerCallbackPost(r)

\* A step of a GET /tool-runs/{id} handler.
get_tool_run(g) ==
  \/ GetBegin(g)
  \/ GetCheck(g)
  \/ GetPoll(g)
  \/ GetFinalize(g)
  \/ GetCallbackCheck(g)
  \/ GetCallbackPost(g)
  \/ GetRespond(g)

\* Requests to create a run arrive until MaxRuns runs exist.
NextTooler ==
  \/ Len(_tool_runs) < MaxRuns /\ CreateToolRun
  \/ \E r \in 1..MaxRuns : CreateRespond(r)
  \/ \E r \in 1..MaxRuns : ProcExit(r)
  \/ \E r \in 1..MaxRuns : _runner_thread(r)
  \/ \E g \in GetHandlers : get_tool_run(g)

SpecTooler == InitTooler /\ [][NextTooler]_vars

\* POST /tool-runs requests arriving at any time, with the watcher and the
\* subprocess of the run that exists, and no GET request.
NextCreate ==
  \/ CreateToolRun
  \/ \E r \in 1..MaxRuns : CreateRespond(r)
  \/ \E r \in 1..MaxRuns : ProcExit(r)
  \/ \E r \in 1..MaxRuns : _runner_thread(r)

SpecCreate == InitTooler /\ [][NextCreate]_vars


----------------------------------------------------------------------------
(* Claims about the tool-run supervisor *)

ToolRunMoves ==
  {<<"QUEUED", "RUNNING">>, <<"RUNNING", "SUCCEEDED">>,
   <<"RUNNING", "FAILED">>}

\* C16: a run is created QUEUED, and every step that changes the status of
\* a run, by its watcher or by a GET handler, moves it QUEUED -> RUNNING,
\* RUNNING -> SUCCEEDED or RUNNING -> FAILED.
C16_ToolRunLifecycle ==
  [][/\ \A r \in RunIds :
          _tool_runs'[r].status # _tool_runs[r].status =>
            <<_tool_runs[r].status, _tool_runs'[r].status>> \in ToolRunMoves
     /\ \A r \in 1..Len(_tool_runs') :
          r \notin RunIds => _tool_runs'[r].status = "QUEUED"]_vars

\* The watcher and two GET handlers have each written the final status.
C16_Witness ==
  /\ Len(_tool_runs) = 1
  /\ _tool_runs[1].status = "FAILED"
  /\ runners[1].pc = "425"
  /\ \A g \in GetHandlers : gets[g].pc = "535" /\ gets[g].run = 1

\* A POST /tool-runs has just been answered 400.
ToolRunRejected ==
  /\ tresp' # tresp
  /\ tresp'.op = "POST /tool-runs"
  /\ tresp'.code = 400

\* C17: a POST /tool-runs answered 400 leaves the registry, the watcher
\* threads and the subprocesses as they were; a request without tool_name,
\* with an unknown tool_name, with a codex input lacking the prompt or with a
\* workdir that is no directory is answered 400.
C17_RejectedCreatesNothing ==
  /\ [][ToolRunRejected =>
          /\ _tool_runs' = _tool_runs
          /\ runners' = runners
          /\ procs' = procs]_vars
  /\ [](\A payload \in ToolRunRequests :
          \/ RequestToolName(payload) \notin TOOL_ADAPTERS
          \/ /\ payload.tool_name = Str("codex", 5)
             /\ payload.input.prompt = Absent
          \/ payload.input.workdir = "nodir"
          => CreateToolRunAbort(payload) = 400)

\* A request is rejected while the subprocess of a run is running.
C17_Witness ==
  /\ tresp.op = "POST /tool-runs"
  /\ tresp.code = 400
  /\ Len(_tool_runs) = 1
  /\ procs[1].state = "running"

\* The positions of the watcher after a failure branch.
AfterFailure == {"330", "352", "done", "dead"}

\* C18: a run whose adapter returned a startup_error is created and
\* answered 201; it never has a pid or a subprocess, its status is never
\* SUCCEEDED, and when its watcher has run the failure branch it is FAILED
\* with exit_code -1 and stderr.log holding the startup error.
C18_StartupErrorFails ==
  /\ [](\A r \in RunIds :
          _tool_runs[r].startup_error # "None" =>
            /\ _tool_runs[r].pid = 0
            /\ _tool_runs[r].process = 0
            /\ procs[r].state = "none"
            /\ _tool_runs[r].status # "SUCCEEDED"
            /\ runners[r].pc \in AfterFailure =>
                 /\ _tool_runs[r].status = "FAILED"
                 /\ _tool_runs[r].exit_code = -1
                 /\ files[r].stderr = _tool_runs[r].startup_error)
  /\ [][\A r \in RunIds :
          _tool_runs[r].startup_error # "None" /\ creates'[r] # creates[r] =>
            tresp'.code = 201 /\ tresp'.run = r]_vars

\* A git-autocommit run outside a git repository has ended and its creation
\* was answered.
C18_Witness ==
  /\ Len(_tool_runs) = 1
  /\ _tool_runs[1].tool_name = Str("git-autocommit", 14)
  /\ _tool_runs[1].startup_error = "Directory is not a git repository"
  /\ runners[1].pc = "done"
  /\ creates[1] = "done"
  /\ _tool_runs[1].status = "FAILED"
  /\ \E g \in GetHandlers : gets[g].pc = "538" /\ gets[g].run = 1

\* C19: a run with status SUCCEEDED has exit_code 0, and a run with status
\* FAILED has an exit_code that is an integer other than 0.
C19_StatusAgreesWithExitCode ==
  \A r \in RunIds :
    /\ _tool_runs[r].status = "SUCCEEDED" => _tool_runs[r].exit_code = 0
    /\ _tool_runs[r].status = "FAILED" =>
         _tool_runs[r].exit_code \notin {0, NoExitCode}

\* Whether s is a prefix of t.
IsPrefix(s, t) == Len(s) <= Len(t) /\ \A i \in 1..Len(s) : s[i] = t[i]

\* C20: the artifacts of every run start with its stdout path and its
\* stderr path, hold no entry twice, and a step only ever appends to them.
C20_ArtifactsKeepLogs ==
  /\ [](\A r \in RunIds :
          LET a == _tool_runs[r].artifacts
          IN /\ Len(a) >= 2
             /\ a[1] = "stdout.log"
             /\ a[2] = "stderr.log"
             /\ \A i, j \in 1..Len(a) : a[i] = a[j] => i = j)
  /\ [][\A r \in RunIds :
          IsPrefix(_tool_runs[r].artifacts, _tool_runs'[r].artifacts)]_vars

\* A git-autocommit run with the branch and commit_hash entries appended.
C20_Witness ==
  /\ Len(_tool_runs) = 1
  /\ Len(_tool_runs[1].artifacts) = 4
  /\ runners[1].pc = "done"

\* How many entries of a list of artifacts are among the given entries.
----------------------------------------------------------------------------
(* Claims about what the supervisor shows and reports *)

CountEntries(artifacts, entries) ==
  Cardinality({i \in 1..Len(artifacts) : artifacts[i] \in entries})

\* C21: every answer of GET /tool-runs/{id} that shows a git-autocommit run
\* with status SUCCEEDED and exit_code 0 shows artifacts with exactly one
\* branch entry and exactly one commit_hash entry.
C21_SucceededShowsMarkers ==
  (/\ tresp.op = "GET /tool-runs"
   /\ tresp.code = 200
   /\ _tool_runs[tresp.run].tool_name = Str("git-autocommit", 14)
   /\ tresp.status = "SUCCEEDED"
   /\ tresp.exit_code = 0)
  => /\ CountEntries(tresp.artifacts, {"branch:autobot/today"}) = 1
     /\ CountEntries(tresp.artifacts, {"commit_hash:abc123"}) = 1

\* C22: no completion callback is POSTed for a run after a POST for that
\* run has succeeded, whether the POSTs come from the watcher, from a GET
\* handler or from two GET handlers; so at most one POST of a run succeeds.
C22_NoCallbackAfterSuccess ==
  \A i, j \in 1..Len(posts) :
    (i < j /\ posts[i].payload.tool_run_id = posts[j].payload.tool_run_id)
      => posts[i].outcome # "ok"

\* The completion callback of run r was POSTed and failed, the watcher has
\* ended, and the callback is still to be delivered.
CallbackPending(r) ==
  /\ Truthy(_tool_runs[r].callback_url)
  /\ ~_tool_runs[r].callback_sent
  /\ _tool_runs[r].status \in {"SUCCEEDED", "FAILED"}
  /\ runners[r].pc = "done"
  /\ \E i \in 1..Len(posts) :
       posts[i].payload.tool_run_id = r /\ posts[i].outcome = "URLError"

\* C23: a GET /tool-runs/{id} that arrives after the completion callback of
\* the finished run has failed goes on to _send_callback and attempts the
\* POST again, instead of answering without an attempt.
C23_LaterGetRetriesCallback ==
  [][\A g \in GetHandlers :
       (/\ gets[g].pc = "529"
        /\ gets'[g].pc # "529"
        /\ CallbackPending(gets[g].run))
       => gets'[g].pc # "538"]_vars

\* POST /tool-runs has been answered 201.
Answered201 == tresp.op = "POST /tool-runs" /\ tresp.code = 201

C26_WatcherExceptionFailsRun ==
  \A r \in RunIds :
    (runners[r].pc \in {"done", "dead"} /\ procs[r].state # "running")
      => _tool_runs[r].status \in {"SUCCEEDED", "FAILED"}

----------------------------------------------------------------------------
(* The synchronous tool call: POST /tooler/run (tooler lines 254-313 and    *)
(* 457-471) and the dispatcher's call of it (tracker lines 347-350)         *)

\* A request body; input Absent stands for a missing input or one that is
\* no JSON object.
SyncRequest(tool_name, input) == [tool_name |-> tool_name, input |-> input]

\* The input {} as the adapters see it: workdir defaults to the working
\* directory of the service, which is no git repository, sleep_seconds to 1
\* and subject to "chore: autobot update".
DefaultInput ==
  ToolInput(Absent, "dir", FALSE, FALSE, "readonly",
            Str("chore: autobot update", 21), "numeric", FALSE, TRUE, TRUE)

\* Requests without a tool name, with an unknown one and for the dummy
\* tool, and requests for codex and git-autocommit with inputs that take
\* each way through their adapters.
SyncRequests ==
  {SyncRequest(n, i) :
     n \in {Absent, None, Blank, Str("rm-rf", 5), Str("dummy", 5)},
     i \in {Absent, GoodInput, [GoodInput EXCEPT !.sleep_seconds = "text"]}}
  \cup
  {SyncRequest(Str("codex", 5), i) :
     i \in {Absent, GoodInput,
            [GoodInput EXCEPT !.workdir = "nodir"],
            [GoodInput EXCEPT !.git = FALSE],
            [GoodInput EXCEPT !.which = FALSE],
            [GoodInput EXCEPT !.auth = FALSE],
            [GoodInput EXCEPT !.mode = "bogus"]}}
  \cup
  {SyncRequest(Str("git-autocommit", 14), i) :
     i \in {Absent, GoodInput,
            [GoodInput EXCEPT !.workdir = "nodir"],
            [GoodInput EXCEPT !.subject = Blank]}}

\* What subprocess.run gives: a return code, or NoExitCode when it raises
\* (the command cannot be executed).
SyncOutcomes == ExitCodes \cup {NoExitCode}

\* The answer of POST /tooler/run: the status code and whether
\* subprocess.run was called.
SyncAnswer(code, ran) == [code |-> code, ran |-> ran]

RunSyncToolIgnoresExit(tool_name, input_payload, returncode) ==
  SyncAnswer(200, TRUE)

\* Lines 254-313; an exception of subprocess.run is answered 500 by Flask.
_run_sync_tool(tool_name, input_payload, returncode) ==
  LET adapter_result == _resolve_tool_adapter(tool_name, input_payload)
  IN IF adapter_result.abort # 0 THEN SyncAnswer(adapter_result.abort, FALSE)
     ELSE IF adapter_result.startup_error # "None" THEN SyncAnswer(400, FALSE)
     ELSE IF adapter_result.command = "None" THEN SyncAnswer(500, FALSE)
     ELSE IF returncode = NoExitCode THEN SyncAnswer(500, TRUE)
     ELSE IF returncode # 0 THEN SyncAnswer(500, TRUE)
     ELSE SyncAnswer(200, TRUE)

\* Line 460.
SyncToolName(payload) ==
  Or(Strip(PyStr(Or(Get(payload.tool_name, None), Str("dummy", 5)))),
     Str("dummy", 5))

\* Lines 461-464.
SyncInput(payload) ==
  IF payload.input = Absent THEN DefaultInput ELSE payload.input

\* Lines 457-471.
run_tooler(payload, returncode) ==
  _run_sync_tool(SyncToolName(payload), SyncInput(payload), returncode)

\* A client posts to /tooler/run; the handler keeps no state.
RunTooler ==
  /\ \E payload \in SyncRequests, returncode \in SyncOutcomes :
       probe' = [fn |-> "run_tooler", task |-> 0, payload |-> payload,
                 returncode |-> returncode,
                 answer |-> run_tooler(payload, returncode)]
  /\ UNCHANGED <<projects, tasks, history, tool_runs, queue, worker, patches,
                 clock, BOT_CALLBACK_URL, nPatch, resp, touched, bot,
                 startVars, toolerVars>>

\* str() of the HTTPError response.raise_for_status() raises (tracker line
\* 270).
HttpError(code) ==
  IF code < 500 THEN Str("400 Client Error", 60)
  ELSE Str("500 Server Error", 70)

\* Tracker lines 347-350 with the tooler answering: the dispatcher posts
\* {"task_id", "text"}, so the tool is dummy with the default input, and a
\* status of 400 or above makes post_json raise.
CallToolSync ==
  /\ worker.pc = "call" /\ worker.stage = "TOOL_RUNNING"
  /\ \E returncode \in SyncOutcomes :
       LET payload == SyncRequest(Absent, Absent)
           answer == run_tooler(payload, returncode)
       IN /\ probe' = [fn |-> "run_tooler", task |-> worker.task,
                       payload |-> payload, returncode |-> returncode,
                       answer |-> answer]
          /\ worker' =
               IF answer.code >= 400
                 THEN Raise([worker EXCEPT
                               !.tool = [called |-> TRUE,
                                         error |-> HttpError(answer.code)]],
                            HttpError(answer.code))
                 ELSE [worker EXCEPT
                         !.tool = [called |-> TRUE, error |-> None],
                         !.pc = "txn", !.stage = "SUMMARIZING"]
  /\ UNCHANGED <<projects, tasks, history, tool_runs, queue, patches, clock,
                 BOT_CALLBACK_URL, nPatch, resp, touched, bot,
                 startVars, toolerVars>>

\* The tracker with one project, its worker thread running and the bot
\* callback configured or not.
InitSync ==
  /\ projects = 1
  /\ tasks = <<>>
  /\ history = <<>>
  /\ tool_runs = <<>>
  /\ queue = <<>>
  /\ worker = IdleWorker
  /\ patches = [h \in Handlers |-> NoPatch]
  /\ clock = 1
  /\ BOT_CALLBACK_URL \in BOOLEAN
  /\ nPatch = 0
  /\ resp = NoResp
  /\ touched = {}
  /\ probe = NoProbe
  /\ bot = NoBot
  /\ _worker_started = TRUE
  /\ _worker_lock = 0
  /\ starters = [c \in Starters |-> "done"]
  /\ threads = 1
  /\ ToolerIdle
  /\ RUN_AS_USER = ""

\* Tasks are created and dispatched with the tooler answering the tool
\* call, and clients post to /tooler/run; no PATCH request arrives.
NextSync ==
  \/ CreateTaskFrom(QueuedPayloads, MaxTasks)
  \/ RunTooler
  \/ Dequeue
  \/ StageRead
  \/ StageWrite
  \/ SummarizingTxn
  \/ CallAsr
  \/ CallRefine
  \/ CallToolSync
  \/ CallSummarize
  \/ CallTts
  \/ BotCallback
  \/ FailCheck

SpecSync == InitSync /\ [][NextSync]_vars

\* The dispatcher's tool call for the task it is processing has raised.
ToolCallFailed == worker.tool.called /\ worker.tool.error # None

----------------------------------------------------------------------------
(* Claims about the stored rows of the tracker *)

\* C27: every stored task has exactly one of raw_text and raw_audio_uri set,
\* the one its input_type names: raw_text for a text task, raw_audio_uri for
\* a voice task, the other one being NULL.
C27_RawInputMatchesType ==
  \A t \in TaskIds :
    /\ tasks[t].input_type \in {"text", "voice"}
    /\ tasks[t].input_type = "text" =>
         tasks[t].raw_text # None /\ tasks[t].raw_audio_uri = None
    /\ tasks[t].input_type = "voice" =>
         tasks[t].raw_audio_uri # None /\ tasks[t].raw_text = None

----------------------------------------------------------------------------
(* The tracker's POST /tool-runs (tracker lines 669-713)                    *)

MaxToolRows == 2

\* Line 53.
TOOL_RUN_STATES == {"QUEUED", "RUNNING", "SUCCEEDED", "FAILED"}

\* A request body: task_id 0 stands for a missing (falsy) task_id, status
\* "Absent" for a body without the key.
ToolRunPayload(task_id, tool_name, status) ==
  [task_id |-> task_id, tool_name |-> tool_name, status |-> status]

ToolRunPayloads ==
  {ToolRunPayload(t, Str("tooler", 6), "Absent") : t \in 0..(MaxTasks + 1)}
  \cup
  {ToolRunPayload(1, Absent, "Absent"),
   ToolRunPayload(1, Blank, "Absent"),
   ToolRunPayload(1, Str("codex", 5), "SUCCEEDED"),
   ToolRunPayload(1, Str("codex", 5), "DELIVERED"),
   ToolRunPayload(MaxTasks + 1, Blank, "BOGUS")}

\* Line 675.
ToolRunPayloadStatus(payload) ==
  IF payload.status = "Absent" THEN "QUEUED" ELSE payload.status

\* The status code of the tracker's POST /tool-runs for a payload (lines
\* 673-692).
ToolRunCode(payload) ==
  IF payload.task_id = 0 THEN 400
  ELSE IF Strip(PyStr(Get(payload.tool_name, EmptyStr))) = EmptyStr THEN 400
  ELSE IF ToolRunPayloadStatus(payload) \notin TOOL_RUN_STATES THEN 400
  ELSE IF payload.task_id \notin TaskIds THEN 404
  ELSE 201

\* Lines 669-713.  Tasks are never deleted, so the SELECT of line 692 and
\* the INSERT of line 693 are taken as one step.  At most MaxToolRows rows
\* are there when a request is accepted.
PostToolRun ==
  \E payload \in ToolRunPayloads :
    /\ ToolRunCode(payload) = 201 => Len(tool_runs) < MaxToolRows
    /\ IF ToolRunCode(payload) = 201
         THEN /\ tool_runs' =
                   Append(tool_runs,
                          [NewToolRun(payload.task_id,
                                      Strip(PyStr(payload.tool_name)).base,
                                      None, clock)
                             EXCEPT !.status = ToolRunPayloadStatus(payload)])
              /\ clock' = clock + 1
         ELSE UNCHANGED <<tool_runs, clock>>
    /\ resp' = [op |-> "POST /tool-runs", code |-> ToolRunCode(payload),
                task |-> payload.task_id,
                message |-> IF ToolRunCode(payload) = 201 THEN "None"
                            ELSE "rejected"]
    /\ UNCHANGED <<projects, tasks, history, queue, worker, patches,
                   BOT_CALLBACK_URL, nPatch, touched, probe, bot,
                   startVars, toolerVars>>

\* Projects, tasks and tool-run rows are created by clients and the
\* dispatcher processes the tasks; no request changes a project_id or a
\* task_id, and none deletes a row.
NextRows ==
  \/ CreateProject
  \/ CreateTask
  \/ PostToolRun
  \/ WorkerStep

SpecRows == Init /\ [][NextRows]_vars

\* C28: the project_id of every task is the id of an existing project and
\* the task_id of every tool_runs row is the id of an existing task; a POST
\* /tasks naming an unknown project and a POST /tool-runs naming an unknown
\* task are answered 404, and a request that is not answered 201 inserts no
\* row.
C28_ReferentialIntegrity ==
  /\ [](/\ \A t \in TaskIds : tasks[t].project_id \in 1..projects
        /\ \A i \in 1..Len(tool_runs) : tool_runs[i].task_id \in TaskIds
        /\ \A payload \in TaskPayloads :
             (payload.project_id > projects /\ CreateTaskCode(payload) # 400)
               => CreateTaskCode(payload) = 404
        /\ \A payload \in ToolRunPayloads :
             (payload.task_id \notin TaskIds /\ ToolRunCode(payload) # 400)
               => ToolRunCode(payload) = 404)
  /\ [][(resp' # resp /\ resp'.op \in {"POST /tasks", "POST /tool-runs"}
         /\ resp'.code # 201)
        => /\ tasks' = tasks
           /\ history' = history
           /\ tool_runs' = tool_runs
           /\ queue' = queue]_vars

\* A tool-run row posted by a client and one created by the dispatcher, and
\* a POST /tool-runs naming an unknown task just answered 404.
C28_Witness ==
  /\ Len(tool_runs) = 2
  /\ \E i \in 1..2 : tool_runs[i].tool_name = "codex" /\ worker.tool_run_id = 3 - i
  /\ resp.op = "POST /tool-runs"
  /\ resp.code = 404
  /\ resp.task = MaxTasks + 1

\* C29: no step lowers the updated_at of a task row or of a tool_runs row,
\* whatever the order in which PATCH handlers and the dispatcher, each
\* having read the clock before its UPDATE, commit.
C29_UpdatedAtNeverDecreases ==
  [][/\ \A t \in TaskIds : tasks'[t].updated_at >= tasks[t].updated_at
     /\ \A i \in 1..Len(tool_runs) :
          tool_runs'[i].updated_at >= tool_runs[i].updated_at]_vars

\* POST /tasks has just been answered 201, or with another code.
TaskPosted == resp' # resp /\ resp'.op = "POST /tasks" /\ resp'.code = 201
TaskRejected == resp' # resp /\ resp'.op = "POST /tasks" /\ resp'.code # 201

\* C30: a POST /tasks answered 201 appends one task with status RECEIVED,
\* one history row (null -> RECEIVED) of that task and the id of that task
\* to the queue; a POST /tasks answered otherwise changes neither tasks,
\* history nor queue; the queue grows by no other step, holds no id twice
\* and never the id of the task being processed; and every task has exactly
\* one history row with a null from_status, which is its first row and has
\* the earliest changed_at.
C30_CreatedOnceEnqueuedOnce ==
  /\ [][/\ TaskPosted =>
             /\ Len(tasks') = Len(tasks) + 1
             /\ tasks'[Len(tasks')].status = "RECEIVED"
             /\ \A t \in TaskIds : tasks'[t] = tasks[t]
             /\ \E now \in 1..clock :
                  history' = Append(history,
                                    HistoryRow(Len(tasks'), "None", "RECEIVED",
                                               now))
             /\ queue' = Append(queue, Len(tasks'))
        /\ TaskRejected =>
             tasks' = tasks /\ history' = history /\ queue' = queue
        /\ Len(queue') > Len(queue) => TaskPosted]_vars
  /\ [](/\ \A i, j \in 1..Len(queue) : queue[i] = queue[j] => i = j
        /\ \A i \in 1..Len(queue) :
             queue[i] \in TaskIds /\ queue[i] # worker.task
        /\ \A t \in TaskIds :
             LET rows == HistoryOf(t)
             IN /\ Len(rows) >= 1
                /\ rows[1].from_status = "None"
                /\ rows[1].to_status = "RECEIVED"
                /\ \A i \in 2..Len(rows) :
                     /\ rows[i].from_status # "None"
                     /\ rows[i].changed_at >= rows[1].changed_at)

\* A task was created, dequeued once, moved on by the dispatcher and by a
\* PATCH, and has ended.
C30_Witness ==
  /\ Len(tasks) = 1
  /\ queue = <<>>
  /\ worker.task = 1
  /\ worker.pc = "idle"
  /\ Len(HistoryOf(1)) >= 3
  /\ nPatch >= 1
  /\ resp.op = "PATCH"
  /\ tasks[1].status \in Terminal

----------------------------------------------------------------------------
(* Claims about the tool-run rows of the dispatcher *)

\* The statuses a task has before the dispatcher writes TOOL_QUEUED.
BeforeTool == {"RECEIVED", "ROUTED", "TRANSCRIBING", "REFINING"}
\* The statuses the dispatcher writes after the tool call has returned.
AfterTool == {"SUMMARIZING", "TTS_GENERATING", "DELIVERED"}

\* Whether the history of task t has a row to the given status.
Entered(t, status) ==
  \E i \in 1..Len(HistoryOf(t)) : HistoryOf(t)[i].to_status = status

\* C31: with no PATCH request, every task has at most one tool-run row, and
\* none before TOOL_QUEUED was written; the row exists from the commit that
\* writes TOOL_QUEUED on, with tool_name tooler and the persisted
\* refined_text as input; it is QUEUED without started_at while the task is
\* TOOL_QUEUED, RUNNING with started_at and without finished_at while the
\* task is TOOL_RUNNING, and SUCCEEDED with output and finished_at once
\* SUMMARIZING was written.
C31_ToolRunRowLockstep ==
  \A t \in TaskIds :
    /\ Cardinality(ToolRunsOf(t)) <= 1
    /\ ToolRunsOf(t) # {} <=> Entered(t, "TOOL_QUEUED")
    /\ tasks[t].status \in BeforeTool => ToolRunsOf(t) = {}
    /\ \A i \in ToolRunsOf(t) :
         /\ tool_runs[i].tool_name = "tooler"
         /\ tasks[t].refined_text # None
         /\ tool_runs[i].input = tasks[t].refined_text
         /\ tasks[t].status = "TOOL_QUEUED" =>
              /\ tool_runs[i].status = "QUEUED"
              /\ tool_runs[i].started_at = 0
              /\ tool_runs[i].finished_at = 0
         /\ tasks[t].status = "TOOL_RUNNING" =>
              /\ tool_runs[i].status = "RUNNING"
              /\ tool_runs[i].started_at # 0
              /\ tool_runs[i].finished_at = 0
         /\ (tasks[t].status \in AfterTool \/ Entered(t, "SUMMARIZING")) =>
              /\ tool_runs[i].status = "SUCCEEDED"
              /\ tool_runs[i].output # "None"
              /\ tool_runs[i].started_at # 0
              /\ tool_runs[i].finished_at # 0

\* A task delivered by the dispatcher, with its one row SUCCEEDED.
C31_Witness ==
  /\ Len(tasks) = 1
  /\ tasks[1].status = "DELIVERED"
  /\ ToolRunsOf(1) = {1}
  /\ tool_runs[1].status = "SUCCEEDED"
  /\ probe.fn = "run_tooler"
  /\ probe.task = 1

\* C32: when a task is DELIVERED or FAILED, every tool-run row of it is
\* SUCCEEDED or FAILED and has finished_at set.
C32_TerminalTaskTerminalRows ==
  \A t \in TaskIds :
    tasks[t].status \in Terminal =>
      \A i \in ToolRunsOf(t) :
        /\ tool_runs[i].status \in {"SUCCEEDED", "FAILED"}
        /\ tool_runs[i].finished_at # 0

----------------------------------------------------------------------------
(* The dispatcher and a task advanced by PATCH requests *)

MaxAdvance == 3

\* PATCH bodies that only carry a status.
AdvanceBodies ==
  {[EmptyBody EXCEPT !.status = s] :
     s \in {"ROUTED", "REFINING", "TOOL_QUEUED", "FAILED"}}

\* The first update_task_internal of process_task is about to read the row.
FirstRead == worker.pc = "read" /\ worker.stage = "ROUTED"

\* The tracker with one project and no bot callback URL.
InitResume == InitSync /\ ~BOT_CALLBACK_URL

\* One text task is created; up to MaxAdvance PATCH requests for it arrive
\* before the dispatcher has read it for the first time, and are committed
\* then or later; the dispatcher processes the task.
NextResume ==
  \/ CreateTaskFrom({TaskPayload(1, "text", Str("request", 9), None)}, 1)
  \/ \E h \in Handlers, body \in AdvanceBodies :
       /\ (worker.pc = "idle" /\ worker.stage = "None") \/ FirstRead
       /\ PatchBeginFrom(h, 1, body, MaxAdvance)
  \/ \E h \in Handlers : PatchCommit(h)
  \/ Dequeue
  \/ StageRead
  \/ StageWrite
  \/ SummarizingTxn
  \/ CallRefine
  \/ CallTool
  \/ CallSummarize
  \/ BotCallback
  \/ FailCheck

SpecResume == InitResume /\ [][NextResume]_vars

\* No collaborator was called for the task the worker holds.
NoCalls(w) ==
  /\ ~w.asr.called
  /\ ~w.refine.called
  /\ ~w.tool.called
  /\ ~w.summarize.called
  /\ ~w.tts.called
  /\ w.callback = "None"

\* A transition of the dispatcher was rejected before it had called any
\* collaborator: it found the task advanced or FAILED.
RoutedRejected ==
  /\ worker.task # 0
  /\ worker.error = TransitionError
  /\ NoCalls(worker)

\* C33, the mechanism: when the first read of the dispatcher finds a
\* status that is neither RECEIVED nor ROUTED, the transition to ROUTED is
\* rejected without a write, and from then on the worker only runs the
\* failure routine: it calls no collaborator and writes no status but
\* FAILED; when the failure routine finds FAILED it writes nothing.
C33_NoResumeNoSkip ==
  [][/\ (FirstRead /\ worker' # worker
         /\ tasks[worker.task].status \notin {"RECEIVED", "ROUTED"})
          => /\ worker'.pc = "fail"
             /\ NoCalls(worker')
             /\ tasks' = tasks
     /\ (worker.pc = "fail" /\ worker' # worker)
          => /\ worker'.stage = IF worker'.pc = "idle" THEN worker.stage
                                ELSE "FAILED"
             /\ tasks' = tasks
             /\ (worker'.pc = "idle") = (tasks[worker.task].status = "FAILED")
     /\ (worker.stage = "FAILED" /\ worker' # worker)
          => /\ worker'.task # worker.task \/ worker'.stage = "FAILED"
             /\ worker'.pc \notin {"call", "txn"}
             /\ worker'.task = worker.task =>
                  /\ NoCalls(worker') = NoCalls(worker)
                  /\ tasks'[worker.task].status \in
                       {tasks[worker.task].status, "FAILED"}]_vars

\* C33: a task the dispatcher found advanced by PATCH requests, or FAILED,
\* is FAILED when the dispatcher is done with it, and the worker thread is
\* alive.
C33_AdvancedTaskEndsFailed ==
  (RoutedRejected /\ worker.pc \in {"idle", "dead"})
    => /\ worker.pc = "idle"
       /\ tasks[worker.task].status = "FAILED"

----------------------------------------------------------------------------
(* Claims about the completion callback of the supervisor *)

\* The run has ended for the supervisor: its status is SUCCEEDED or FAILED
\* and its exit code is set.
RunEnded(status, exit_code) ==
  status \in {"SUCCEEDED", "FAILED"} /\ exit_code # NoExitCode

\* C34: every completion callback POST carries the status SUCCEEDED or
\* FAILED and an exit code; _send_callback runs, for the watcher and for a
\* GET request alike, only when the run has that status and an exit code;
\* and callback_sent never changes from true to false.
C34_CallbackOnlyWhenFinished ==
  /\ [](/\ \A i \in 1..Len(posts) :
             RunEnded(posts[i].payload.status, posts[i].payload.exit_code)
        /\ \A r \in RunIds :
             runners[r].pc \in {"330", "352"} =>
               RunEnded(_tool_runs[r].status, _tool_runs[r].exit_code)
        /\ \A g \in GetHandlers :
             gets[g].pc \in {"330", "352"} =>
               RunEnded(_tool_runs[gets[g].run].status,
                        _tool_runs[gets[g].run].exit_code))
  /\ [][\A r \in RunIds :
          _tool_runs[r].callback_sent => _tool_runs'[r].callback_sent]_vars

\* A GET request finalized a run and its callback POST was accepted; the
\* watcher of the run reached _send_callback too.
C34_Witness ==
  \E i \in 1..Len(posts) :
    /\ posts[i].by = "GET"
    /\ posts[i].outcome = "ok"
    /\ _tool_runs[posts[i].payload.tool_run_id].callback_sent
    /\ runners[posts[i].payload.tool_run_id].pc = "done"

\* C35: the callback POST of a git-autocommit run that exited 0 carries
\* the branch and the commit_hash entry among its artifacts.
C35_CallbackCarriesMarkers ==
  \A i \in 1..Len(posts) :
    LET payload == posts[i].payload
    IN (/\ _tool_runs[payload.tool_run_id].tool_name =
             Str("git-autocommit", 14)
        /\ payload.exit_code = 0)
         => /\ \E k \in 1..Len(payload.artifacts) :
                 payload.artifacts[k] = "branch:autobot/today"
            /\ \E k \in 1..Len(payload.artifacts) :
                 payload.artifacts[k] = "commit_hash:abc123"

----------------------------------------------------------------------------
(* The tool-run supervisor: a codex run for every input *)

\* The inputs of a codex run with what the adapter finds on the machine.
CodexInputs ==
  {ToolInput(prompt, workdir, git, skip, mode, Absent, "numeric", mock,
             which, auth) :
     prompt \in {Absent, Blank, None, Str("prompt", 6)},
     workdir \in {"blank", "nodir", "dir"},
     git \in BOOLEAN, skip \in BOOLEAN,
     mode \in {"readonly", "full-auto", "bogus"},
     mock \in BOOLEAN, which \in BOOLEAN, auth \in BOOLEAN}

\* The supervisor after import and a client about to post a codex run.
InitCodex ==
  /\ projects = 0
  /\ tasks = <<>>
  /\ history = <<>>
  /\ tool_runs = <<>>
  /\ queue = <<>>
  /\ worker = IdleWorker
  /\ patches = [h \in Handlers |-> NoPatch]
  /\ clock = 1
  /\ BOT_CALLBACK_URL = FALSE
  /\ nPatch = 0
  /\ resp = NoResp
  /\ touched = {}
  /\ bot = NoBot
  /\ _worker_started = TRUE
  /\ _worker_lock = 0
  /\ starters = [c \in Starters |-> "done"]
  /\ threads = 1
  /\ ToolerIdle
  /\ RUN_AS_USER = ""
  /\ probe \in [fn : {"_build_codex_adapter"}, input : CodexInputs,
                done : {FALSE}, result : {Abort(0)}]

\* POST /tool-runs {tool_name: codex, input}: the adapter is applied to
\* the input and the run is created, or the request is aborted.
PostCodexRun ==
  /\ probe.fn = "_build_codex_adapter"
  /\ ~probe.done
  /\ StartToolRun({ToolRunRequest(Str("codex", 5), probe.input, Absent)})
  /\ probe' = [probe EXCEPT !.done = TRUE,
                            !.result = _build_codex_adapter(probe.input)]

\* The request, then the watcher and the subprocess of the run.
NextCodex ==
  \/ PostCodexRun
  \/ CreateRespond(1)
  \/ ProcExit(1)
  \/ RunnerLookup(1)
  \/ RunnerRunning(1)
  \/ RunnerStarted(1)
  \/ RunnerFail(1)
  \/ RunnerOpen(1)
  \/ RunnerPopen(1)
  \/ RunnerPid(1)
  \/ RunnerProcess(1)
  \/ RunnerWait(1)
  \/ RunnerFinalize(1)
  \/ RunnerMarkers(1)
  \/ RunnerCallbackCheck(1)

SpecCodex == InitCodex /\ [][NextCodex]_vars

----------------------------------------------------------------------------
(* Claims about the codex adapter *)

\* The request was answered 400 and no run exists.
Rejected400 == tresp.code = 400 /\ _tool_runs = <<>>

\* The run was created with a startup error, and when its watcher is done
\* it is FAILED with exit code -1 and the error in stderr.log.
FailsWith(startup_error) ==
  /\ Len(_tool_runs) = 1
  /\ _tool_runs[1].startup_error = startup_error
  /\ runners[1].command = "None"
  /\ runners[1].pc = "done" =>
       /\ _tool_runs[1].status = "FAILED"
       /\ _tool_runs[1].exit_code = -1
       /\ files[1].stderr = startup_error

\* The run was created with a command and no startup error.
StartsWith(command) ==
  /\ Len(_tool_runs) = 1
  /\ _tool_runs[1].startup_error = "None"
  /\ runners[1].command = command

\* C40: the codex adapter reports the first precondition that fails, in
\* the order prompt (400), workdir (400), git repository (startup error),
\* mock mode (echo command), binary (startup error), auth file (startup
\* error), mode (400); a request answered 400 creates no run.
C40_CodexChecksInOrder ==
  (probe.fn = "_build_codex_adapter" /\ probe.done) =>
    LET input == probe.input
        prompt_ok == input.prompt \notin {Absent, Blank}
        workdir_ok == input.workdir = "dir"
        git_ok == input.git \/ input.skip_git_repo_check
        mode_ok == input.mode \in {"readonly", "full-auto"}
        mock == input.TOOLER_CODEX_MOCK
    IN /\ ~prompt_ok => Rejected400
       /\ (prompt_ok /\ ~workdir_ok) => Rejected400
       /\ (prompt_ok /\ workdir_ok /\ ~git_ok) =>
            FailsWith("Codex requires a Git repository workdir")
       /\ (prompt_ok /\ workdir_ok /\ git_ok /\ mock) =>
            StartsWith("bash codex-mock")
       /\ (prompt_ok /\ workdir_ok /\ git_ok /\ ~mock /\ ~input.which) =>
            FailsWith("Codex CLI binary is not available")
       /\ (prompt_ok /\ workdir_ok /\ git_ok /\ ~mock /\ input.which
           /\ ~input.auth) =>
            FailsWith("Codex is not authenticated")
       /\ (prompt_ok /\ workdir_ok /\ git_ok /\ ~mock /\ input.which
           /\ input.auth /\ ~mode_ok) => Rejected400
       /\ (prompt_ok /\ workdir_ok /\ git_ok /\ ~mock /\ input.which
           /\ input.auth /\ mode_ok) => StartsWith("codex exec")

\* Neither the binary nor the auth file exists and the mode is invalid:
\* the run has failed with the message about the binary.
C40_Witness ==
  /\ probe.fn = "_build_codex_adapter" /\ probe.done
  /\ ~probe.input.which /\ ~probe.input.auth
  /\ probe.input.mode = "bogus"
  /\ ~probe.input.TOOLER_CODEX_MOCK
  /\ Len(_tool_runs) = 1
  /\ runners[1].pc = "done"
  /\ _tool_runs[1].status = "FAILED"
  /\ files[1].stderr = "Codex CLI binary is not available"

----------------------------------------------------------------------------
(* The chat frontend (telegram-bot/app.py) *)

MaxUpdates == 3
MaxRaises == 2
MaxChatTasks == 4

\* Every variable but bot.
serviceVars ==
  <<projects, tasks, history, tool_runs, queue, worker, patches, clock,
    BOT_CALLBACK_URL, nPatch, resp, touched, probe, startVars, toolerVars>>

\* The chats that write to the bot.
Chats == {71, 72}

\* The value found under "update_id": an integer, a string of digits, or
\* nothing.
IntId(n) == [type |-> "int", value |-> n]
StrId(n) == [type |-> "str", value |-> n]
NoId == [type |-> "absent", value |-> 0]

\* An update of Telegram with a message of a chat: a text, a voice
\* recording, or something else (a sticker).
Update(update_id, chat_id, kind) ==
  [update_id |-> IntId(update_id), chat_id |-> chat_id, kind |-> kind]

UpdateKinds == {"text", "voice", "other"}

CalculateNextOffsetNoIncrement(current_offset, updates) ==
  LET ints == {i \in 1..Len(updates) : updates[i].update_id.type = "int"}
  IN IF ints = {} THEN current_offset
     ELSE updates[CHOOSE i \in ints : \A j \in ints : j <= i].update_id.value

CalculateNextOffsetFirst(current_offset, updates) ==
  IF updates # <<>> /\ Head(updates).update_id.type = "int"
    THEN Head(updates).update_id.value + 1
    ELSE current_offset

\* calculate_next_offset, lines 65-71.
RECURSIVE calculate_next_offset(_, _)
calculate_next_offset(current_offset, updates) ==
  IF updates = <<>> THEN current_offset
  ELSE calculate_next_offset(
         IF Head(updates).update_id.type = "int"
           THEN Head(updates).update_id.value + 1
           ELSE current_offset,
         Tail(updates))

\* What Telegram answers to getUpdates with an offset: the updates it
\* holds whose update_id is not below the offset, oldest first.
getUpdates(offset) ==
  SelectSeq(bot.pending,
            LAMBDA u : offset = NoOffset \/ u.update_id.value >= offset)

\* A chat sends a message: Telegram holds one more update.
TelegramUpdate ==
  /\ bot.issued < MaxUpdates
  /\ \E c \in Chats, kind \in UpdateKinds :
       bot' = [bot EXCEPT !.issued = @ + 1,
                          !.pending = Append(@, Update(bot.issued + 1, c, kind))]
  /\ UNCHANGED serviceVars

\* The body handle_text_message (line 192) and handle_voice_message (line
\* 204) pass to create_task, with the project id of line 159.
ChatTaskBody(update) ==
  (IF update.kind = "text"
     THEN TaskPayload(1, "text", Str("message", 7), None)
     ELSE TaskPayload(1, "voice", None, Str("storage/voice.oga", 17)))
  @@ [source_chat_id |-> update.chat_id]

\* process_update (lines 51-62) returns: a text or a voice message becomes
\* a task of the tracker, and the chat gets its acknowledgement.  next is
\* the frontend after the call apart from what process_update records.
process_update(update, next) ==
  IF update.kind \in {"text", "voice"}
    THEN /\ create_task({ChatTaskBody(update)}, MaxChatTasks)
         /\ resp'.code = 201
         /\ bot' = [next EXCEPT
                      !.processed = Append(@, update.update_id.value),
                      !.requests = Append(@, [update |-> update.update_id.value,
                                              chat_id |-> update.chat_id,
                                              task |-> resp'.task])]
    ELSE /\ bot' = [next EXCEPT
                      !.processed = Append(@, update.update_id.value)]
         /\ UNCHANGED serviceVars

\* process_update raises: the tracker or Telegram's file API cannot be
\* reached, or answers with an error status (lines 151, 161, 169, 180).
ProcessUpdateRaises(update, next) ==
  /\ update.kind \in {"text", "voice"}
  /\ bot.raised < MaxRaises
  /\ bot' = [next EXCEPT !.raised = @ + 1]
  /\ UNCHANGED serviceVars

\* Lines 96-105: the batch is fetched, or the request fails.
PollGet ==
  /\ bot.pc = "get"
  /\ \/ bot' = [bot EXCEPT !.pc = "process", !.k = 0,
                           !.updates = getUpdates(bot.offset),
                           !.pending = getUpdates(bot.offset),
                           !.previous = bot.updates]
     \/ /\ bot.raised < MaxRaises
        /\ bot' = [bot EXCEPT !.pc = "sleep", !.raised = @ + 1]
  /\ UNCHANGED serviceVars

\* Lines 106-107: the next update of the batch is processed; an exception
\* leaves the loop body for the handlers of lines 109-114.
PollProcess ==
  /\ bot.pc = "process"
  /\ bot.k < Len(bot.updates)
  /\ LET update == bot.updates[bot.k + 1]
     IN \/ process_update(update, [bot EXCEPT !.k = @ + 1])
        \/ ProcessUpdateRaises(update, [bot EXCEPT !.pc = "sleep",
                                                   !.raisedAt = bot.k + 1])

\* Line 108, after the last update of the batch.
PollOffset ==
  /\ bot.pc = "process"
  /\ bot.k = Len(bot.updates)
  /\ bot' = [bot EXCEPT !.pc = "get", !.raisedAt = 0,
                        !.offset = calculate_next_offset(bot.offset, bot.updates)]
  /\ UNCHANGED serviceVars

\* Lines 111 and 114: the pause after an exception.
PollSleep ==
  /\ bot.pc = "sleep"
  /\ bot' = [bot EXCEPT !.pc = "get"]
  /\ UNCHANGED serviceVars

\* The tracker with the project of the frontend and no task, its dispatcher
\* idle, and the frontend polling.
InitPoll == InitResume

\* Chats write, the frontend polls; the dispatcher takes no step.
NextPoll ==
  \/ TelegramUpdate
  \/ PollGet
  \/ PollProcess
  \/ PollOffset
  \/ PollSleep

SpecPoll == InitPoll /\ [][NextPoll]_vars

----------------------------------------------------------------------------
(* calculate_next_offset applied to a list of updates *)

MaxBatch == 3

\* The values under "update_id" the function is applied to.
UpdateIdValues == {IntId(n) : n \in 1..3} \cup {StrId(2), NoId}

\* The lists of at most MaxBatch updates.
UpdateLists ==
  UNION {[1..n -> {[update_id |-> v, chat_id |-> 71, kind |-> "text"] :
                     v \in UpdateIdValues}] : n \in 0..MaxBatch}

InitOffset ==
  /\ projects = 0
  /\ tasks = <<>>
  /\ history = <<>>
  /\ tool_runs = <<>>
  /\ queue = <<>>
  /\ worker = IdleWorker
  /\ patches = [h \in Handlers |-> NoPatch]
  /\ clock = 1
  /\ BOT_CALLBACK_URL = FALSE
  /\ nPatch = 0
  /\ resp = NoResp
  /\ touched = {}
  /\ bot = NoBot
  /\ _worker_started = TRUE
  /\ _worker_lock = 0
  /\ starters = [c \in Starters |-> "done"]
  /\ threads = 1
  /\ ToolerIdle
  /\ RUN_AS_USER = ""
  /\ probe \in [fn : {"calculate_next_offset"},
                current_offset : {NoOffset} \cup 1..3,
                updates : UpdateLists,
                done : {FALSE}, result : {NoOffset}]

ApplyOffset ==
  /\ probe.fn = "calculate_next_offset"
  /\ ~probe.done
  /\ probe' = [probe EXCEPT
                 !.done = TRUE,
                 !.result = calculate_next_offset(probe.current_offset,
                                                  probe.updates)]
  /\ UNCHANGED <<projects, tasks, history, tool_runs, queue, worker, patches,
                 clock, BOT_CALLBACK_URL, nPatch, resp, touched, bot,
                 startVars, toolerVars>>

SpecOffset == InitOffset /\ [][ApplyOffset]_vars

----------------------------------------------------------------------------
(* The chat frontend: the webhook and the result of a task *)

MaxMessages == 2

\* POST /webhook in webhook mode (lines 258-270): process_update for the
\* update Telegram delivers; when it raises the request is answered 502
\* (line 233) or 500.
telegram_webhook ==
  /\ bot.issued < MaxMessages
  /\ \E c \in Chats, kind \in UpdateKinds :
       LET update == Update(bot.issued + 1, c, kind)
       IN \/ process_update(update, [bot EXCEPT !.issued = @ + 1])
          \/ ProcessUpdateRaises(update, [bot EXCEPT !.issued = @ + 1])

\* The payload of the bot callback, tracker lines 409-414.
BotCallbackPayload(t) ==
  [task_id |-> t, status |-> "DELIVERED",
   summary |-> tasks[t].final_summary,
   audio_uri |-> tasks[t].final_audio_uri]

\* payload.get("chat_id") of line 251; 0 stands for None.
NoChat == 0
PayloadChatId(payload) ==
  IF "chat_id" \in DOMAIN payload THEN payload.chat_id ELSE NoChat

\* POST /callbacks/task-result (lines 246-255): the frontend after the
\* handler has run for a payload.
task_result_callback(payload) ==
  IF PayloadChatId(payload) # NoChat
    THEN [bot EXCEPT !.sent =
            Append(@, [chat_id |-> PayloadChatId(payload),
                       summary |-> Or(payload.summary, Str("done", 6))])]
    ELSE bot

\* Tracker lines 408-418 with the frontend as the receiver: when the POST
\* is answered the handler of the frontend has run.
DeliverResult ==
  /\ BotCallbackPost
  /\ bot' = IF worker'.callback = "ok"
              THEN task_result_callback(BotCallbackPayload(worker.task))
              ELSE bot

\* Telegram delivers the messages of the chats to the webhook, the
\* dispatcher processes the tasks and posts the results to the frontend.
NextChat ==
  \/ telegram_webhook
  \/ Dequeue
  \/ StageRead
  \/ StageWrite
  \/ SummarizingTxn
  \/ CallAsr
  \/ CallRefine
  \/ CallTool
  \/ CallSummarize
  \/ CallTts
  \/ DeliverResult
  \/ FailCheck

SpecChat == InitSync /\ [][NextChat]_vars

----------------------------------------------------------------------------
(* The ASR service: chunk_wav and transcribe_wav (asr/app.py) *)

MaxFrames == 5
MaxChunkFrames == 2

\* A wav file is its number of frames; a text is a sequence of characters.
TOO_LONG_ERROR == "Too long wav file"

\* wav_in.readframes(frames_per_chunk) in a loop (lines 79-89): the frames
\* of the chunks written, in order.
RECURSIVE ReadChunks(_, _)
ReadChunks(remaining, frames_per_chunk) ==
  LET chunk_frames == IF remaining < frames_per_chunk THEN remaining
                      ELSE frames_per_chunk
  IN IF chunk_frames = 0 THEN <<>>
     ELSE <<[name |-> "chunk", frames |-> chunk_frames]>>
          \o ReadChunks(remaining - chunk_frames, frames_per_chunk)

ChunkWavDropsRemainder(total_frames, frames_per_chunk) ==
  IF total_frames < frames_per_chunk
    THEN <<[name |-> "wav", frames |-> total_frames]>>
    ELSE [i \in 1..(total_frames \div frames_per_chunk) |->
            [name |-> "chunk", frames |-> frames_per_chunk]]

\* chunk_wav, lines 70-93: the paths returned, each with the frames of its
\* file; "wav" is wav_path itself.
chunk_wav(total_frames, frames_per_chunk) ==
  LET chunks == ReadChunks(total_frames, frames_per_chunk)
  IN IF total_frames = 0 \/ chunks = <<>>
       THEN <<[name |-> "wav", frames |-> total_frames]>>
       ELSE chunks

\* What transcribe_fn does for a file: it returns a text or raises.
Returned(text) == [error |-> "None", text |-> text]
Raised(message) == [error |-> message, text |-> <<>>]
Transcriptions ==
  {Returned(text) : text \in {<<>>, <<"a">>, <<"b", " ">>}}
  \cup {Raised(TOO_LONG_ERROR), Raised("Empty ASR result")}

\* " ".join(pieces).
RECURSIVE JoinSpaces(_)
JoinSpaces(pieces) ==
  IF pieces = <<>> THEN <<>>
  ELSE IF Len(pieces) = 1 THEN pieces[1]
  ELSE pieces[1] \o <<" ">> \o JoinSpaces(Tail(pieces))

\* str.strip().
RECURSIVE StripText(_)
StripText(text) ==
  IF text = <<>> THEN <<>>
  ELSE IF Head(text) = " " THEN StripText(Tail(text))
  ELSE IF text[Len(text)] = " " THEN StripText(SubSeq(text, 1, Len(text) - 1))
  ELSE text

\* Lines 163 and 174.
JoinPieces(pieces) ==
  StripText(JoinSpaces(SelectSeq(pieces, LAMBDA piece : piece # <<>>)))

\* The result of transcribe_fn for the i-th path of chunk_paths: whole is
\* its result for wav_path, parts[i] its result for chunk i.
TranscribeFn(chunk_paths, i, whole, parts) ==
  IF chunk_paths[i].name = "wav" THEN whole ELSE parts[i]

\* The loops of lines 149-161 and 168-173 from path i on: the pieces, or
\* the exception of the first path that raises.
RECURSIVE TranscribeFrom(_, _, _, _, _)
TranscribeFrom(chunk_paths, i, whole, parts, pieces) ==
  IF i > Len(chunk_paths) THEN [error |-> "None", pieces |-> pieces]
  ELSE LET answer == TranscribeFn(chunk_paths, i, whole, parts)
       IN IF answer.error # "None"
            THEN [error |-> answer.error, pieces |-> pieces]
            ELSE TranscribeFrom(chunk_paths, i + 1, whole, parts,
                                Append(pieces, answer.text))

\* transcribe_wav_from_chunks, lines 166-174.
transcribe_wav_from_chunks(chunk_paths, whole, parts) ==
  LET done == TranscribeFrom(chunk_paths, 1, whole, parts, <<>>)
  IN IF done.error # "None" THEN Raised(done.error)
     ELSE Returned(JoinPieces(done.pieces))

\* transcribe_wav, lines 138-163, for a wav of total_frames frames and
\* CHUNK_SECONDS worth frames_per_chunk frames: what it returns or raises,
\* and whether it called chunk_wav.
transcribe_wav(total_frames, frames_per_chunk, whole, parts) ==
  LET long == total_frames > frames_per_chunk
      chunk_paths == IF long THEN chunk_wav(total_frames, frames_per_chunk)
                     ELSE <<[name |-> "wav", frames |-> total_frames]>>
      done == TranscribeFrom(chunk_paths, 1, whole, parts, <<>>)
  IN IF done.error = "None"
       THEN [answer |-> Returned(JoinPieces(done.pieces)), chunked |-> long]
     ELSE IF done.error = TOO_LONG_ERROR /\ Len(chunk_paths) = 1
       THEN [answer |->
               transcribe_wav_from_chunks(
                 chunk_wav(total_frames, frames_per_chunk), whole, parts),
             chunked |-> TRUE]
     ELSE [answer |-> Raised(done.error), chunked |-> long]

InitAsr ==
  /\ projects = 0
  /\ tasks = <<>>
  /\ history = <<>>
  /\ tool_runs = <<>>
  /\ queue = <<>>
  /\ worker = IdleWorker
  /\ patches = [h \in Handlers |-> NoPatch]
  /\ clock = 1
  /\ BOT_CALLBACK_URL = FALSE
  /\ nPatch = 0
  /\ resp = NoResp
  /\ touched = {}
  /\ bot = NoBot
  /\ _worker_started = TRUE
  /\ _worker_lock = 0
  /\ starters = [c \in Starters |-> "done"]
  /\ threads = 1
  /\ ToolerIdle
  /\ RUN_AS_USER = ""
  /\ \E total_frames \in 0..MaxFrames, frames_per_chunk \in 1..MaxChunkFrames,
        whole \in Transcriptions :
       \E parts \in [1..((total_frames + frames_per_chunk - 1)
                          \div frames_per_chunk) -> Transcriptions] :
         probe = [fn |-> "transcribe_wav", total_frames |-> total_frames,
                  frames_per_chunk |-> frames_per_chunk,
                  whole |-> whole, parts |-> parts,
                  chunks |-> <<>>, chunks_done |-> FALSE,
                  result |-> [answer |-> Returned(<<>>), chunked |-> FALSE],
                  done |-> FALSE]

\* chunk_wav is applied to the wav.
ApplyChunkWav ==
  /\ probe.fn = "transcribe_wav"
  /\ ~probe.chunks_done
  /\ probe' = [probe EXCEPT
                 !.chunks_done = TRUE,
                 !.chunks = chunk_wav(probe.total_frames,
                                      probe.frames_per_chunk)]
  /\ UNCHANGED <<projects, tasks, history, tool_runs, queue, worker, patches,
                 clock, BOT_CALLBACK_URL, nPatch, resp, touched, bot,
                 startVars, toolerVars>>

\* transcribe_wav is applied to the wav.
ApplyTranscribeWav ==
  /\ probe.fn = "transcribe_wav"
  /\ ~probe.done
  /\ probe' = [probe EXCEPT
                 !.done = TRUE,
                 !.result = transcribe_wav(probe.total_frames,
                                           probe.frames_per_chunk,
                                           probe.whole, probe.parts)]
  /\ UNCHANGED <<projects, tasks, history, tool_runs, queue, worker, patches,
                 clock, BOT_CALLBACK_URL, nPatch, resp, touched, bot,
                 startVars, toolerVars>>

NextAsr == ApplyChunkWav \/ ApplyTranscribeWav

SpecAsr == InitAsr /\ [][NextAsr]_vars

----------------------------------------------------------------------------
(* Claims about the ASR service *)

\* The frames of a list of paths together.
RECURSIVE SumFrames(_)
SumFrames(paths) ==
  IF paths = <<>> THEN 0 ELSE Head(paths).frames + SumFrames(Tail(paths))

\* ceil(N / C) paths in order, all but the last of C frames, with N frames
\* together.
SplitEvenly(paths, N, C) ==
  /\ Len(paths) = (N + C - 1) \div C
  /\ \A i \in 1..(Len(paths) - 1) : paths[i].frames = C
  /\ SumFrames(paths) = N

\* The texts transcribe_fn returned for the chunks of a wav that was
\* split, or for the wav that was not.
ChunkTexts(split) ==
  IF split
    THEN [i \in DOMAIN probe.parts |-> probe.parts[i].text]
    ELSE <<probe.whole.text>>

\* What transcribe_wav returned is the non-empty texts in order, joined by
\* single spaces and trimmed.
ReturnsJoined ==
  probe.result.answer.error = "None" =>
    probe.result.answer.text =
      StripText(JoinSpaces(SelectSeq(ChunkTexts(probe.result.chunked),
                                     LAMBDA text : Len(text) > 0)))

\* C39 as stated: chunk_wav returns ceil(N / C) chunks, all but the last
\* of C frames, with N frames together; transcribe_wav calls chunk_wav
\* only for a wav longer than the chunk size; and it returns the non-empty
\* texts joined by single spaces and trimmed.
C39_ChunksAndJoin ==
  probe.fn = "transcribe_wav" =>
    /\ probe.chunks_done =>
         SplitEvenly(probe.chunks, probe.total_frames, probe.frames_per_chunk)
    /\ probe.done =>
         /\ probe.result.chunked =>
              probe.total_frames > probe.frames_per_chunk
         /\ ReturnsJoined

\* C39, amended: chunk_wav returns ceil(N / C) chunks, all but the last
\* of C frames, with N frames together, for a wav of at least one frame,
\* and the wav itself for a wav of no frame; transcribe_wav calls
\* chunk_wav for a wav longer than the chunk size and also when
\* transcribe_fn raises "Too long wav file" for a wav that is not; and it
\* returns the non-empty texts joined by single spaces and trimmed.
C39_ChunksAndJoinWithFallback ==
  probe.fn = "transcribe_wav" =>
    /\ probe.chunks_done =>
         IF probe.total_frames = 0
           THEN probe.chunks = <<[name |-> "wav", frames |-> 0]>>
           ELSE /\ SplitEvenly(probe.chunks, probe.total_frames,
                               probe.frames_per_chunk)
                /\ \A i \in 1..Len(probe.chunks) :
                     probe.chunks[i].name = "chunk"
    /\ probe.done =>
         /\ probe.result.chunked <=>
              \/ probe.total_frames > probe.frames_per_chunk
              \/ probe.whole.error = TOO_LONG_ERROR
         /\ ReturnsJoined

\* A wav of five frames was split into chunks of two, two and one frames,
\* and the texts "a", "" and "b " were returned as "a b".
C39_Witness ==
  /\ probe.fn = "transcribe_wav"
  /\ probe.chunks_done /\ probe.done
  /\ probe.total_frames = 5 /\ probe.frames_per_chunk = 2
  /\ Len(probe.chunks) = 3
  /\ probe.chunks[3].frames = 1
  /\ probe.parts = <<Returned(<<"a">>), Returned(<<>>), Returned(<<"b", " ">>)>>
  /\ probe.result.chunked
  /\ probe.result.answer = Returned(<<"a", " ", "b">>)

----------------------------------------------------------------------------
(* Claims about the chat frontend *)

\* C36: when the dispatcher has delivered a task the frontend created for
\* a chat message and its bot callback POST was answered, the frontend has
\* sent a result to the chat of that message.
C36_ResultReachesChat ==
  \A i \in 1..Len(bot.requests) :
    (/\ worker.task = bot.requests[i].task
     /\ worker.pc = "idle"
     /\ worker.stage = "DELIVERED"
     /\ worker.callback = "ok")
      => \E j \in 1..Len(bot.sent) :
           bot.sent[j].chat_id = bot.requests[i].chat_id

\* The positions of the updates whose update_id is an integer.
IntegerIds(updates) ==
  {i \in 1..Len(updates) : updates[i].update_id.type = "int"}

\* C38: calculate_next_offset returns the update_id of the last update
\* with an integer update_id plus one, and current_offset when there is no
\* such update; for a list of integer ids in increasing order the result
\* is greater than every one of them.
C38_NextOffsetAfterLastId ==
  (probe.fn = "calculate_next_offset" /\ probe.done) =>
    LET updates == probe.updates
        ints == IntegerIds(updates)
    IN /\ ints = {} => probe.result = probe.current_offset
       /\ \A i \in ints :
            (\A j \in ints : j <= i) =>
              probe.result = updates[i].update_id.value + 1
       /\ (/\ ints = 1..Len(updates)
           /\ \A i, j \in ints :
                i < j => updates[i].update_id.value < updates[j].update_id.value)
            => \A i \in ints : probe.result > updates[i].update_id.value

\* The function was applied to a list whose last update has no integer
\* update_id and whose ids are not in increasing order.
C38_Witness ==
  /\ probe.fn = "calculate_next_offset" /\ probe.done
  /\ probe.current_offset = 1
  /\ Len(probe.updates) = 3
  /\ probe.updates[1].update_id = IntId(3)
  /\ probe.updates[2].update_id = IntId(2)
  /\ probe.updates[3].update_id = StrId(2)
  /\ probe.result = 3

\* How often x occurs in a sequence.
Occurrences(seq, x) == Cardinality({i \in 1..Len(seq) : seq[i] = x})

\* The tasks the frontend created for an update.
TasksOfUpdate(n) == {i \in 1..Len(bot.requests) : bot.requests[i].update = n}

\* C37: the offset of the polling loop changes only at line 108, after
\* process_update returned for every update of the batch, and becomes the
\* last update_id plus one; when process_update raises for update k the
\* offset stays, the next batch fetched begins with the same updates, and
\* when that batch is done the updates before k were processed at least
\* twice and their tasks created at least twice; and every update below
\* the offset was processed.
C37_OffsetAfterWholeBatch ==
  /\ [][/\ bot'.offset # bot.offset =>
             /\ bot.pc = "process" /\ bot.k = Len(bot.updates)
             /\ bot.updates # <<>>
             /\ bot'.offset = bot.updates[Len(bot.updates)].update_id.value + 1
             /\ \A i \in 1..Len(bot.updates) :
                  Occurrences(bot.processed, bot.updates[i].update_id.value) > 0
        /\ (bot.pc = "process" /\ bot'.pc = "sleep") =>
             /\ bot'.offset = bot.offset
             /\ bot'.processed = bot.processed
        /\ (bot.pc = "get" /\ bot'.pc = "process" /\ bot.raisedAt > 0) =>
             /\ bot'.offset = bot.offset
             /\ IsPrefix(bot.updates, bot'.updates)
        /\ (bot.pc = "process" /\ bot'.pc = "get" /\ bot.raisedAt > 0) =>
             \A j \in 1..(bot.raisedAt - 1) :
               LET update == bot.updates[j]
               IN /\ Occurrences(bot.processed, update.update_id.value) >= 2
                  /\ update.kind # "other" =>
                       Cardinality(TasksOfUpdate(update.update_id.value)) >= 2
       ]_vars
  /\ [](\A n \in 1..bot.issued :
          (bot.offset # NoOffset /\ n < bot.offset) =>
            Occurrences(bot.processed, n) > 0)

\* process_update raised for the second update of a batch, the batch was
\* fetched and processed again, and the first update has two tasks.
C37_Witness ==
  /\ bot.offset = 3
  /\ bot.raised > 0
  /\ Occurrences(bot.processed, 1) = 2
  /\ Occurrences(bot.processed, 2) = 1
  /\ Cardinality(TasksOfUpdate(1)) = 2
  /\ Len(tasks) = 3

====
